---- MODULE Spec2Model ----
(***************************************************************************)
(* Castle Defenders: the cooperative tower-defense session engine          *)
(* (src/game/castle_defenders/game_state.py), the player profiles          *)
(* (src/castle_defenders/player.py) and the socket handlers and the        *)
(* background driver that call into them (src/app.py).                     *)
(*                                                                         *)
(* Numbers.  Gold, costs and castle health are integers in the code.       *)
(* Enemy and troop health and projectile damage are floats: they are kept  *)
(* here in thousandths of a hit point.  Positions and speeds of enemies,   *)
(* projectiles and troops are kept in twentieths of a pixel; tower and     *)
(* plot coordinates stay in pixels (At converts).  Tick deltas are         *)
(* multiples of 16 ms, so speed * (delta / 16) is exact in these units.    *)
(*                                                                         *)
(* Geometry.  Positions are pairs <<x, y>>.  A move toward a target        *)
(* divides by the integer square root of the squared distance and          *)
(* truncates toward zero, where the code divides floats.                   *)
(*                                                                         *)
(* Threads.  The server runs its handlers on threads without a lock.  In   *)
(* Spec and SpecLate a handler is one step, except the join, which is      *)
(* split where it calls find_or_create_game.  SpecThreads also splits      *)
(* place_tower and update between their checks and their writes.           *)
(***************************************************************************)
EXTENDS Integers, Sequences, FiniteSets, TLC

\* ------------------------------------------------------------------ bounds
NumSockets == 2
NumProfiles == 2
NumThreads == 2
MaxGames == 1
NumPlots == 2
MaxIds == 2
MaxWave == 36
MaxTicks == 2
LateTicks == 5654
BattleTicks == 42
BattleRun == 12
StunLead == 60
StunTicks == 66
HealTicks == 2005
GhostWave == 12
EbbTicks == 100
CreditLead == 116
CreditTicks == 120
MarchTicks == 35
MendWave == 7
MendTicks == 288
NumJoiners == 9
NumLeavers == 1

\* -------------------------------------------------------- program constants
BaseCastleHealth == 1000
BaseGold == 200
MaxPlayers == 8
StartTime == 10000

None == 0

Sockets == 1..NumSockets
Profiles == 1..NumProfiles
Threads == 1..NumThreads
\* the background thread CastleDefendersTick
Driver == 0
AllThreads == {Driver} \cup Threads
GameIds == 1..MaxGames
PlotIds == 0..(NumPlots - 1)

\* ----------------------------------------------------------------- catalog
TowerNames ==
  {"cannon", "archer", "mortar", "wizard", "frost", "barracks", "goldmine",
   "tesla", "dragon", "sniper", "necromancer", "shrine"}

TOWER_TYPES ==
  [t \in TowerNames |->
     CASE t = "cannon"      -> [cost |-> 100, damage |-> 25,  range |-> 150, fireRate |-> 1000, unlockLevel |-> 1]
       [] t = "archer"      -> [cost |-> 75,  damage |-> 12,  range |-> 180, fireRate |-> 400,  unlockLevel |-> 1]
       [] t = "mortar"      -> [cost |-> 200, damage |-> 40,  range |-> 200, fireRate |-> 2500, unlockLevel |-> 3]
       [] t = "wizard"      -> [cost |-> 250, damage |-> 30,  range |-> 140, fireRate |-> 1200, unlockLevel |-> 5]
       [] t = "frost"       -> [cost |-> 175, damage |-> 8,   range |-> 130, fireRate |-> 800,  unlockLevel |-> 4]
       [] t = "barracks"    -> [cost |-> 300, damage |-> 15,  range |-> 100, fireRate |-> 1500, unlockLevel |-> 6]
       [] t = "goldmine"    -> [cost |-> 400, damage |-> 0,   range |-> 0,   fireRate |-> 5000, unlockLevel |-> 2]
       [] t = "tesla"       -> [cost |-> 350, damage |-> 50,  range |-> 120, fireRate |-> 1800, unlockLevel |-> 8]
       [] t = "dragon"      -> [cost |-> 500, damage |-> 35,  range |-> 160, fireRate |-> 1000, unlockLevel |-> 10]
       [] t = "sniper"      -> [cost |-> 275, damage |-> 100, range |-> 300, fireRate |-> 3000, unlockLevel |-> 7]
       [] t = "necromancer" -> [cost |-> 450, damage |-> 20,  range |-> 150, fireRate |-> 2000, unlockLevel |-> 12]
       [] t = "shrine"      -> [cost |-> 350, damage |-> 0,   range |-> 150, fireRate |-> 0,    unlockLevel |-> 9]]

\* the type-specific entries of TOWER_TYPES
BarracksTroopCount == 3
BarracksTroopHealth == 50
GoldPerTick == 8
SplashRadius == 60
ChainCount == 3
SlowDuration == 2000
StunDuration == 500
BurnDamage == 5
BurnDuration == 3000

\* tower_type.get("critChance", 0) in hundredths, tower_type.get("critMultiplier", 2)
CritChance(tower_type) == IF tower_type = "sniper" THEN 25 ELSE 0
CritMultiplier(tower_type) == 2

\* shrine: range 150 pixels, damageBoost 0.2 (in tenths)
ShrineBoost == 2

EnemyNames ==
  {"grunt", "runner", "tank", "healer", "shield", "boss", "swarm", "ghost", "berserker"}

\* health in hit points, speed in twentieths of a pixel per 16 ms, reward in
\* gold, armor in tenths; armor, heals, phasing and enrages default to 0 / False
EnemyTemplate(health, speed, reward) ==
  [health |-> health, speed |-> speed, reward |-> reward, armor |-> 0,
   heals |-> FALSE, phasing |-> FALSE, enrages |-> FALSE]

ENEMY_TYPES ==
  [e \in EnemyNames |->
     CASE e = "grunt"     -> EnemyTemplate(50, 20, 10)
       [] e = "runner"    -> EnemyTemplate(30, 40, 8)
       [] e = "tank"      -> EnemyTemplate(200, 10, 25)
       [] e = "healer"    -> [EnemyTemplate(60, 16, 20) EXCEPT !.heals = TRUE]
       [] e = "shield"    -> [EnemyTemplate(100, 14, 18) EXCEPT !.armor = 5]
       [] e = "boss"      -> EnemyTemplate(1000, 6, 200)
       [] e = "swarm"     -> EnemyTemplate(15, 30, 3)
       [] e = "ghost"     -> [EnemyTemplate(80, 24, 30) EXCEPT !.phasing = TRUE]
       [] e = "berserker" -> [EnemyTemplate(120, 12, 35) EXCEPT !.enrages = TRUE]]

\* the first plots of CastleGame._generate_plots
PlotPositions ==
  <<[x |-> 50, y |-> 180], [x |-> 50, y |-> 420], [x |-> 170, y |-> 120],
    [x |-> 170, y |-> 420], [x |-> 170, y |-> 520], [x |-> 320, y |-> 280],
    [x |-> 320, y |-> 480], [x |-> 480, y |-> 80], [x |-> 620, y |-> 80],
    [x |-> 480, y |-> 280], [x |-> 620, y |-> 320], [x |-> 480, y |-> 520],
    [x |-> 620, y |-> 520], [x |-> 780, y |-> 180], [x |-> 780, y |-> 480],
    [x |-> 200, y |-> 280], [x |-> 680, y |-> 200]>>

\* CastleGame._generate_path
Path ==
  <<[x |-> -30, y |-> 300], [x |-> 100, y |-> 300], [x |-> 100, y |-> 200],
    [x |-> 250, y |-> 200], [x |-> 250, y |-> 350], [x |-> 400, y |-> 350],
    [x |-> 400, y |-> 150], [x |-> 550, y |-> 150], [x |-> 550, y |-> 400],
    [x |-> 700, y |-> 400], [x |-> 700, y |-> 300], [x |-> 850, y |-> 300]>>

Abs(n) == IF n < 0 THEN -n ELSE n

PathLen == Len(Path)

\* self.path[i], in twentieths of a pixel
Waypoint(i) == [x |-> 20 * Path[i + 1].x, y |-> 20 * Path[i + 1].y]

\* --------------------------------------------------------- player profiles
\* CastlePlayer: a profile as loaded from the profile store.  perks holds the
\* purchased level of each perk the session reads.
NoPerks ==
  [towerDamage |-> 0, towerSpeed |-> 0, towerRange |-> 0, startingGold |-> 0,
   waveBonus |-> 0, killBonus |-> 0, castleHealth |-> 0, xpBonus |-> 0,
   critChance |-> 0, goldInterest |-> 0, towerDiscount |-> 0, mineEfficiency |-> 0]

CastlePlayer(level, perk_points, perks) ==
  [level |-> level, xp |-> 0, perk_points |-> perk_points, perks |-> perks,
   total_games_played |-> 0]

\* a fresh profile, and one that reached level 9 and spent its eight perk points
StoredProfile(p) ==
  IF p = 1
    THEN CastlePlayer(1, 0, NoPerks)
    ELSE CastlePlayer(9, 0, [NoPerks EXCEPT !.startingGold = 6,
                                            !.castleHealth = 1,
                                            !.towerDiscount = 1])

\* CastlePlayer.get_stats: multipliers are kept as the perk level they are
\* computed from (multiplier = 1.0 +/- level * perLevel).
get_stats(profile) ==
  [towerDamage       |-> profile.perks.towerDamage,
   towerSpeed        |-> profile.perks.towerSpeed,
   towerRange        |-> profile.perks.towerRange,
   startingGoldBonus |-> profile.perks.startingGold * 25,
   waveBonus         |-> profile.perks.waveBonus,
   killBonus         |-> profile.perks.killBonus,
   castleHealthBonus |-> profile.perks.castleHealth * 50,
   xpBonus           |-> profile.perks.xpBonus,
   critChance        |-> profile.perks.critChance,
   goldInterest      |-> profile.perks.goldInterest,
   towerDiscount     |-> profile.perks.towerDiscount,
   mineEfficiency    |-> profile.perks.mineEfficiency]

\* mutant: the perk multiplier is ignored
DiscountedCost_nominal(base, discount) == base

\* int(cost * towerCostMultiplier), towerCostMultiplier = 1.0 - level * 0.02
\* in IEEE doubles: 350 * (1.0 - 15 * 0.02) is 244.99999999999997.
DiscountedCost(base, discount) ==
  IF base = 350 /\ discount = 15
    THEN 244
    ELSE (base * (100 - 2 * discount)) \div 100

\* mutant: the full catalog cost is refunded
SellRefund_full(base) == base

\* int(cost * 0.6)
SellRefund(base) == (base * 6) \div 10

\* mutant: the wave bonus is paid without the player's multiplier
WaveBonus_plain(wave, level) == 50 + wave * 15

\* int(wave_bonus * waveBonusMultiplier), waveBonusMultiplier = 1.0 + level * 0.10;
\* for the perk levels of the modelled profiles (0 and 3) the float product
\* truncates to the exact floor in every wave up to MaxWave
WaveBonus(wave, level) == ((50 + wave * 15) * (10 + level)) \div 10

\* int(gold * goldInterest), goldInterest = level * 0.01
Interest(gold, level) == (gold * level) \div 100

\* ------------------------------------------------------------ entity model
GamePlayer(socket_id, profile_id, stats) ==
  [id |-> socket_id, gold |-> BaseGold + stats.startingGoldBonus, score |-> 0,
   enemies_killed |-> 0, towers_built |-> 0, damage_dealt |-> 0,
   profile |-> profile_id, stats |-> stats]

Tower(tower_id, tower_type, x, y, plot_id, owner_id) ==
  [id |-> tower_id, type |-> tower_type, x |-> x, y |-> y, plot_id |-> plot_id,
   owner_id |-> owner_id, last_fired |-> 0, level |-> 1]

Troop(troop_id, x, y, health, damage, owner_id, troop_type) ==
  [id |-> troop_id, x |-> x, y |-> y, health |-> health, damage |-> damage,
   owner_id |-> owner_id, type |-> troop_type]

Plot(plot_id) ==
  [id |-> plot_id, x |-> PlotPositions[plot_id + 1].x,
   y |-> PlotPositions[plot_id + 1].y, tower |-> None, owner |-> None]

\* Enemy.__init__: health and reward scaled once by the wave number
\* int(health * (1 + (wave - 1) * 0.15)) in IEEE doubles falls one short of
\* the exact product for these (type, wave) pairs (waves 1..MaxWave).
FloatShortfall ==
  {<<"grunt", 25>>, <<"runner", 19>>,
   <<"tank", 2>>, <<"tank", 8>>, <<"tank", 10>>, <<"tank", 24>>, <<"tank", 25>>,
   <<"healer", 8>>, <<"healer", 10>>, <<"healer", 19>>, <<"healer", 24>>,
   <<"healer", 32>>,
   <<"shield", 2>>, <<"shield", 8>>, <<"shield", 10>>, <<"shield", 24>>,
   <<"shield", 25>>,
   <<"boss", 10>>, <<"boss", 19>>, <<"boss", 24>>, <<"boss", 32>>,
   <<"ghost", 10>>, <<"ghost", 24>>, <<"ghost", 32>>,
   <<"berserker", 8>>, <<"berserker", 10>>, <<"berserker", 19>>,
   <<"berserker", 24>>, <<"berserker", 32>>}

SpawnHealth(enemy_type, wave) ==
  ((ENEMY_TYPES[enemy_type].health * (100 + (wave - 1) * 15)) \div 100)
    - (IF <<enemy_type, wave>> \in FloatShortfall THEN 1 ELSE 0)

\* int(reward * (1 + wave * 0.1)) falls one short of the exact product for
\* these (type, wave) pairs (waves 1..MaxWave)
RewardShortfall ==
  {<<"tank", 36>>, <<"boss", 13>>, <<"boss", 31>>, <<"boss", 36>>, <<"ghost", 31>>}

SpawnReward(enemy_type, wave) ==
  ((ENEMY_TYPES[enemy_type].reward * (10 + wave)) \div 10)
    - (IF <<enemy_type, wave>> \in RewardShortfall THEN 1 ELSE 0)

Enemy(enemy_id, enemy_type, wave) ==
  [id |-> enemy_id, type |-> enemy_type,
   x |-> Waypoint(0).x, y |-> Waypoint(0).y,
   health |-> 1000 * SpawnHealth(enemy_type, wave),
   max_health |-> 1000 * SpawnHealth(enemy_type, wave),
   speed |-> ENEMY_TYPES[enemy_type].speed,
   reward |-> SpawnReward(enemy_type, wave),
   path_index |-> 0,
   stunned_until |-> 0, slowed_until |-> 0,
   burning |-> FALSE, burn_damage |-> 0, burn_until |-> 0,
   armor |-> ENEMY_TYPES[enemy_type].armor,
   heals |-> ENEMY_TYPES[enemy_type].heals,
   phasing |-> ENEMY_TYPES[enemy_type].phasing,
   enrages |-> ENEMY_TYPES[enemy_type].enrages, enraged |-> FALSE]

\* Projectile.__init__; position in twentieths, damage in thousandths, speed
\* in twentieths per update
Projectile(x, y, target_id, damage, speed, proj_type, owner_id) ==
  [x |-> x, y |-> y, target_id |-> target_id, damage |-> damage, speed |-> speed,
   type |-> proj_type, owner_id |-> owner_id]

\* CastleGame.__init__
CastleGame(game_id) ==
  [id |-> game_id, players |-> <<>>, towers |-> <<>>, enemies |-> <<>>,
   projectiles |-> <<>>, troops |-> <<>>, wave |-> 0,
   castle_health |-> BaseCastleHealth, max_castle_health |-> BaseCastleHealth,
   state |-> "waiting", wave_in_progress |-> FALSE, enemies_to_spawn |-> <<>>,
   spawn_timer |-> 0, spawned |-> 0,
   plots |-> [p \in PlotIds |-> Plot(p)]]

\* ---------------------------------------------------------- small helpers
RECURSIVE SumOver(_, _)
SumOver(f, S) ==
  IF S = {} THEN 0
  ELSE LET k == CHOOSE k \in S : TRUE IN f[k] + SumOver(f, S \ {k})

Range(seq) == {seq[i] : i \in 1..Len(seq)}

\* a Python dict with one key removed / set
DictPop(d, k) == [j \in (DOMAIN d) \ {k} |-> d[j]]
DictSet(d, k, v) == [j \in (DOMAIN d) \cup {k} |-> IF j = k THEN v ELSE d[j]]

\* -------------------------------------------------- CastleGame: the roster
\* mutant: the current health is reset at every roster change
recalculate_always(g) ==
  LET bonus_health ==
        SumOver([s \in DOMAIN g.players |-> g.players[s].stats.castleHealthBonus],
                DOMAIN g.players)
  IN [g EXCEPT !.max_castle_health = BaseCastleHealth + bonus_health,
               !.castle_health = BaseCastleHealth + bonus_health]

recalculate_castle_health(g) ==
  LET bonus_health ==
        SumOver([s \in DOMAIN g.players |-> g.players[s].stats.castleHealthBonus],
                DOMAIN g.players)
      max == BaseCastleHealth + bonus_health
  IN [g EXCEPT !.max_castle_health = max,
               !.castle_health = IF g.state = "waiting" THEN max ELSE @]

add_player(g, socket_id, profile_id, profile) ==
  recalculate_castle_health(
    [g EXCEPT !.players =
       DictSet(g.players, socket_id, GamePlayer(socket_id, profile_id, get_stats(profile)))])

remove_player(g, socket_id) ==
  [g EXCEPT !.players = DictPop(g.players, socket_id)]


\* ------------------------------------------------ CastleGame: the commands
Failure(g, error) ==
  [game |-> g, success |-> FALSE, error |-> error, tower |-> None, refund |-> 0]

\* `if plot.tower:` -- a tower id is a non-empty string, None otherwise
PlotOccupied(plot) == plot.tower # None

\* `player.profile.level < tower_def["unlockLevel"]`
LevelTooLow(level, tower_def) == level < tower_def.unlockLevel

\* mutant: a balance equal to the cost is refused
CannotAfford_strict(gold, cost) == gold <= cost

\* `player.gold < cost`
CannotAfford(gold, cost) == gold < cost

\* mutant: the gold is taken before the balance is checked
NotEnoughGold_debited(g, socket_id, cost) ==
  Failure([g EXCEPT !.players[socket_id].gold = @ - cost], "Not enough gold")

\* the insufficient-gold return of place_tower
NotEnoughGold(g, socket_id, cost) == Failure(g, "Not enough gold")

\* mutant: the ownership test is lost
NotOwner_never(plot, socket_id) == FALSE

\* `plot.owner != socket_id`
NotOwner(plot, socket_id) == plot.owner # socket_id

\* the troops a barracks deploys when it is placed (position in twentieths,
\* health in thousandths); the random jitter of up to 20 pixels around the
\* plot is not tracked
BarracksTroops(tower_id, plot, socket_id) ==
  [i \in 1..BarracksTroopCount |->
     Troop(<<tower_id, i>>, 20 * plot.x, 20 * plot.y, 1000 * BarracksTroopHealth,
           TOWER_TYPES["barracks"].damage, socket_id, "soldier")]

\* the statements of place_tower after its checks: the debit, the counter,
\* the tower, the plot and the troops.  The debit goes to the GamePlayer the
\* checks looked up; when that player has left the roster it is lost.
Placed(g, socket_id, plot_id, tower_type, tower_id, cost) ==
  LET plot == g.plots[plot_id]
      paid == IF socket_id \in DOMAIN g.players
                THEN [g EXCEPT !.players[socket_id].gold = @ - cost,
                               !.players[socket_id].towers_built = @ + 1]
                ELSE g
  IN [paid EXCEPT
        !.towers = Append(@, Tower(tower_id, tower_type, plot.x, plot.y,
                                   plot_id, socket_id)),
        !.plots[plot_id].tower = tower_id,
        !.plots[plot_id].owner = socket_id,
        !.troops =
          IF tower_type = "barracks"
            THEN @ \o BarracksTroops(tower_id, plot, socket_id)
            ELSE @]

\* CastleGame.place_tower.  tower_id stands for the fresh uuid; levels gives
\* player.profile.level, read from the shared profile object.
place_tower(g, levels, socket_id, plot_id, tower_type, tower_id) ==
  IF socket_id \notin DOMAIN g.players THEN Failure(g, "Player not found")
  ELSE IF plot_id \notin DOMAIN g.plots THEN Failure(g, "Plot not found")
  ELSE IF PlotOccupied(g.plots[plot_id]) THEN Failure(g, "Plot already occupied")
  ELSE IF tower_type \notin DOMAIN TOWER_TYPES THEN Failure(g, "Invalid tower type")
  ELSE
    LET player == g.players[socket_id]
        plot == g.plots[plot_id]
        tower_def == TOWER_TYPES[tower_type]
        cost == DiscountedCost(tower_def.cost, player.stats.towerDiscount)
    IN IF LevelTooLow(levels[player.profile], tower_def)
         THEN Failure(g, "Requires level")
       ELSE IF CannotAfford(player.gold, cost) THEN NotEnoughGold(g, socket_id, cost)
       ELSE [game |-> Placed(g, socket_id, plot_id, tower_type, tower_id, cost),
             success |-> TRUE, error |-> "", tower |-> tower_id, refund |-> 0]

\* the plot a sold tower stood on, freed
FreedPlot(plot) == [plot EXCEPT !.tower = None, !.owner = None]

\* CastleGame.sell_tower.  plot_key is the payload value as received
\* ([kind, v]); p.id == plot_id holds only for an integer equal to the id.
sell_tower(g, socket_id, plot_key) ==
  IF socket_id \notin DOMAIN g.players THEN Failure(g, "Player not found")
  ELSE IF ~ (plot_key.kind = "int" /\ plot_key.v \in DOMAIN g.plots)
    THEN Failure(g, "Plot not found")
  ELSE LET plot_id == plot_key.v IN
  IF ~PlotOccupied(g.plots[plot_id]) THEN Failure(g, "No tower here")
  ELSE IF NotOwner(g.plots[plot_id], socket_id) THEN Failure(g, "Not your tower")
  ELSE IF ~ \E i \in 1..Len(g.towers) : g.towers[i].id = g.plots[plot_id].tower
    THEN Failure(g, "Tower not found")
  ELSE
    LET tower == g.towers[CHOOSE i \in 1..Len(g.towers) :
                            /\ g.towers[i].id = g.plots[plot_id].tower
                            /\ \A j \in 1..(i - 1) :
                                 g.towers[j].id # g.plots[plot_id].tower]
        refund == SellRefund(TOWER_TYPES[tower.type].cost)
    IN [game |->
          [g EXCEPT
             !.players[socket_id].gold = @ + refund,
             !.towers = SelectSeq(@, LAMBDA t : t.id # tower.id),
             !.plots[plot_id] = FreedPlot(@)],
        success |-> TRUE, error |-> "", tower |-> None, refund |-> refund]

\* CastleGame._generate_wave_enemies.  rolls[i] is the i-th random.random()
\* draw, in thousandths.
WaveEnemyType(wave, roll) ==
  IF wave >= 15 /\ roll < 100 THEN "berserker"
  ELSE IF wave >= 12 /\ roll < 80 THEN "ghost"
  ELSE IF wave >= 10 /\ roll < 250 THEN "swarm"
  ELSE IF wave >= 8 /\ roll < 120 THEN "shield"
  ELSE IF wave >= 7 /\ roll < 100 THEN "healer"
  ELSE IF wave >= 5 /\ roll < 150 THEN "tank"
  ELSE IF wave >= 3 /\ roll < 200 THEN "runner"
  ELSE "grunt"

\* mutant: one regular enemy more per wave, without the half
BaseCount_whole(wave) == 5 + wave

BaseCount(wave) == 5 + (wave * 3) \div 2

generate_wave_enemies(wave, rolls) ==
  LET base_count == BaseCount(wave)
      bosses ==
        IF wave % 5 = 0
          THEN <<[type |-> "boss", delay |-> 0]>>
                 \o [i \in 1..(wave \div 2) |->
                       [type |-> "healer", delay |-> 500 + (i - 1) * 300]]
          ELSE <<>>
      regular ==
        [i \in 1..base_count |->
           [type |-> WaveEnemyType(wave, rolls[i]), delay |-> (i - 1) * 400]]
      swarm ==
        IF wave % 7 = 0 /\ wave > 0
          THEN [i \in 1..20 |->
                  [type |-> "swarm", delay |-> base_count * 400 + (i - 1) * 150]]
          ELSE <<>>
  IN bosses \o regular \o swarm

\* mutant: a call during a wave rewinds the spawn clock
start_wave_rewind(g, rolls) ==
  IF g.wave_in_progress THEN [g EXCEPT !.spawn_timer = 0]
  ELSE
  LET wave == g.wave + 1 IN
  [g EXCEPT
     !.wave = wave,
     !.wave_in_progress = TRUE,
     !.players =
       [s \in DOMAIN g.players |->
          [g.players[s] EXCEPT
             !.gold = @ + WaveBonus(wave, g.players[s].stats.waveBonus)
                        + Interest(g.players[s].gold, g.players[s].stats.goldInterest)]],
     !.enemies_to_spawn = generate_wave_enemies(wave, rolls),
     !.spawn_timer = 0]

\* CastleGame.start_wave
start_wave(g, rolls) ==
  IF g.wave_in_progress THEN g
  ELSE
    LET wave == g.wave + 1 IN
    [g EXCEPT
       !.wave = wave,
       !.wave_in_progress = TRUE,
       !.players =
         [s \in DOMAIN g.players |->
            [g.players[s] EXCEPT
               !.gold = @ + WaveBonus(wave, g.players[s].stats.waveBonus)
                          + Interest(g.players[s].gold, g.players[s].stats.goldInterest)]],
       !.enemies_to_spawn = generate_wave_enemies(wave, rolls),
       !.spawn_timer = 0]


\* --------------------------------------------------- CastleGame: the update
\* CastleGame._spawn_enemy; the enemy's id stands for the fresh uuid
spawn_enemy(g, enemy_type) ==
  IF enemy_type \notin DOMAIN ENEMY_TYPES THEN g
  ELSE [g EXCEPT !.enemies = Append(@, Enemy(g.spawned + 1, enemy_type, g.wave)),
                 !.spawned = @ + 1]

\* the while loop of the spawning stage
RECURSIVE SpawnDue(_)
SpawnDue(g) ==
  IF Len(g.enemies_to_spawn) > 0 /\ g.spawn_timer >= Head(g.enemies_to_spawn).delay
    THEN SpawnDue(spawn_enemy([g EXCEPT !.enemies_to_spawn = Tail(@)],
                              Head(g.enemies_to_spawn).type))
    ELSE g

SpawnStage(g, delta_time) ==
  IF Len(g.enemies_to_spawn) > 0
    THEN SpawnDue([g EXCEPT !.spawn_timer = @ + delta_time])
    ELSE g

\* dx * dx + dy * dy between two points; dist < r is Dist2 < r * r
Dist2(a, b) == (b.x - a.x) * (b.x - a.x) + (b.y - a.y) * (b.y - a.y)

\* math.sqrt, truncated to a whole twentieth
RECURSIVE SqrtSearch(_, _, _)
SqrtSearch(n, lo, hi) ==
  IF lo >= hi THEN lo
  ELSE LET mid == (lo + hi + 1) \div 2
       IN IF mid * mid <= n THEN SqrtSearch(n, mid, hi) ELSE SqrtSearch(n, lo, mid - 1)

ISqrt(n) == SqrtSearch(n, 0, 30000)

\* (d / dist) * step, truncated to a whole twentieth
Toward(d, step, dist) ==
  IF d >= 0 THEN (d * step) \div dist ELSE -(((-d) * step) \div dist)

\* x += (dx / dist) * step; y += (dy / dist) * step
StepToward(a, target, step) ==
  LET dist == ISqrt(Dist2(a, target))
  IN [a EXCEPT !.x = @ + Toward(target.x - a.x, step, dist),
               !.y = @ + Toward(target.y - a.y, step, dist)]

Stunned(e, now_ms) == e.stunned_until > now_ms

\* burn damage: burn_damage hit points per second, health in thousandths
Burned(e, delta_time, now_ms) ==
  IF e.burning /\ e.burn_until > now_ms
    THEN [e EXCEPT !.health = @ - e.burn_damage * delta_time]
    ELSE [e EXCEPT !.burning = FALSE]

Enrage(e) ==
  IF e.enrages /\ ~e.enraged /\ e.health * 10 < e.max_health * 3
    THEN [e EXCEPT !.enraged = TRUE, !.speed = @ * 2]
    ELSE e

EffectiveSpeed(e, now_ms) ==
  IF e.slowed_until > now_ms THEN e.speed \div 2 ELSE e.speed

ReachedCastle(e) == ~ (e.path_index + 1 < PathLen)

\* one step along the path: within 2 * speed of the next waypoint the index
\* advances (the position is not snapped), otherwise the enemy moves
\* speed * (delta / 16) toward the waypoint, possibly past it.
Moved(e, delta_time, now_ms) ==
  LET speed == EffectiveSpeed(e, now_ms)
      target == Waypoint(e.path_index + 1)
  IN IF Dist2(e, target) < (speed * 2) * (speed * 2)
       THEN [e EXCEPT !.path_index = @ + 1]
       ELSE StepToward(e, target, speed * (delta_time \div 16))

\* the body of the enemy loop for one enemy
EnemyStep(e, delta_time, now_ms) ==
  IF Stunned(e, now_ms)
    THEN [enemy |-> e, reached |-> FALSE, remove |-> FALSE]
    ELSE LET b == Enrage(Burned(e, delta_time, now_ms)) IN
         IF ReachedCastle(b)
           THEN [enemy |-> b, reached |-> TRUE, remove |-> TRUE]
           ELSE LET m == Moved(b, delta_time, now_ms) IN
                [enemy |-> m, reached |-> FALSE, remove |-> m.health <= 0]

\* mutant: the halving is applied to the whole sum
CastleDamage_halved(wave) == (10 + wave) \div 2

CastleDamage(wave) == 10 + wave \div 2

EnemyStage(g, delta_time, now_ms) ==
  LET stepped == [i \in 1..Len(g.enemies) |-> EnemyStep(g.enemies[i], delta_time, now_ms)]
      arrivals == Cardinality({i \in 1..Len(stepped) : stepped[i].reached})
      kept == SelectSeq(stepped, LAMBDA r : ~r.remove)
  IN [g EXCEPT !.castle_health = @ - arrivals * CastleDamage(g.wave),
               !.enemies = [i \in 1..Len(kept) |-> kept[i].enemy]]

\* the index of the enemy a scan `if dist < closest: closest = dist` ends on:
\* the first of the nearest among the candidates, 0 when there is none
Closest(enemies, from, candidates) ==
  IF candidates = {} THEN 0
  ELSE CHOOSE i \in candidates :
         \A j \in candidates :
           \/ Dist2(from, enemies[i]) < Dist2(from, enemies[j])
           \/ Dist2(from, enemies[i]) = Dist2(from, enemies[j]) /\ i <= j

\* a tower's position in twentieths
At(t) == [x |-> 20 * t.x, y |-> 20 * t.y]

\* effective_range = range * towerRangeMultiplier (1.0 + level * 0.05), in twentieths
EffectiveRange(t, owner) ==
  (TOWER_TYPES[t.type].range * (100 + 5 * owner.stats.towerRange)) \div 5

\* now - last_fired >= fireRate / towerSpeedMultiplier (1.0 + level * 0.03)
ReadyToFire(t, owner, now_ms) ==
  (now_ms - t.last_fired) * (100 + 3 * owner.stats.towerSpeed)
    >= TOWER_TYPES[t.type].fireRate * 100

\* mutant: every tower may hit a phasing enemy
TowerTarget_any(g, t, owner) ==
  Closest(g.enemies, At(t),
          {i \in 1..Len(g.enemies) :
             Dist2(At(t), g.enemies[i]) < EffectiveRange(t, owner) * EffectiveRange(t, owner)})

\* the target loop of a tower: ghosts are hit by magic towers only
TowerTarget(g, t, owner) ==
  Closest(g.enemies, At(t),
          {i \in 1..Len(g.enemies) :
             /\ ~ (g.enemies[i].phasing /\ t.type \notin {"wizard", "necromancer"})
             /\ Dist2(At(t), g.enemies[i]) < EffectiveRange(t, owner) * EffectiveRange(t, owner)})

\* the number of shrines within the shrine's range of the tower
ShrinesNear(g, t) ==
  Cardinality({j \in 1..Len(g.towers) :
                 /\ g.towers[j].type = "shrine"
                 /\ Dist2(At(t), At(g.towers[j]))
                      <= (20 * TOWER_TYPES["shrine"].range) * (20 * TOWER_TYPES["shrine"].range)})

\* the projectile's damage in thousandths: effective damage, shrine boost,
\* critical hit, armor
ShotDamage(g, t, owner, target, draws) ==
  LET boosted == TOWER_TYPES[t.type].damage * (100 + 5 * owner.stats.towerDamage)
                   * (10 + ShrineBoost * ShrinesNear(g, t))
      crit == /\ 2 * owner.stats.critChance + CritChance(t.type) > 0
              /\ draws.crit
      struck == IF crit THEN boosted * CritMultiplier(t.type) ELSE boosted
  IN IF target.armor > 0 THEN (struck * (10 - target.armor)) \div 10 ELSE struck

\* frost slows, tesla stuns, dragon sets on fire
SpecialEffects(t, target, now_ms) ==
  LET slowed == IF t.type = "frost"
                  THEN [target EXCEPT !.slowed_until = now_ms + SlowDuration] ELSE target
      stunned == IF t.type = "tesla"
                   THEN [slowed EXCEPT !.stunned_until = now_ms + StunDuration] ELSE slowed
  IN IF t.type = "dragon"
       THEN [stunned EXCEPT !.burning = TRUE, !.burn_damage = BurnDamage,
                            !.burn_until = now_ms + BurnDuration]
       ELSE stunned

\* wizard chain lightning: from the last target to the nearest other enemy
\* within 100 pixels, chainCount - 1 times; only the last target is excluded
RECURSIVE Chain(_, _, _, _, _)
Chain(enemies, last, damage, owner_id, hops) ==
  IF hops = 0 THEN << >>
  ELSE LET next == Closest(enemies, enemies[last],
                           {i \in 1..Len(enemies) :
                              /\ enemies[i].id # enemies[last].id
                              /\ Dist2(enemies[last], enemies[i]) < 2000 * 2000})
       IN IF next = 0 THEN Chain(enemies, last, damage, owner_id, hops - 1)
          ELSE <<Projectile(enemies[last].x, enemies[last].y, enemies[next].id,
                            (damage * 7) \div 10, 240, "chain", owner_id)>>
                 \o Chain(enemies, next, damage, owner_id, hops - 1)

\* the body of the tower loop for tower i.  A tower whose owner left the
\* roster is skipped, and so is a tower of an unknown type.  A gold mine pays
\* int(goldPerTick * mineEfficiencyMultiplier) every fireRate ms; a shrine is
\* passive.
TowerStep(g, i, now_ms, draws) ==
  LET t == g.towers[i] IN
  IF t.owner_id \notin DOMAIN g.players THEN g
  ELSE IF t.type \notin DOMAIN TOWER_TYPES THEN g
  ELSE
    LET owner == g.players[t.owner_id] IN
    IF t.type = "goldmine"
      THEN IF now_ms - t.last_fired >= TOWER_TYPES["goldmine"].fireRate
             THEN [g EXCEPT !.towers[i].last_fired = now_ms,
                            !.players[t.owner_id].gold =
                               @ + (GoldPerTick * (10 + owner.stats.mineEfficiency)) \div 10]
             ELSE g
    ELSE IF t.type = "shrine" THEN g
    ELSE IF ~ReadyToFire(t, owner, now_ms) THEN g
    ELSE
      LET k == TowerTarget(g, t, owner) IN
      IF k = 0 THEN g
      ELSE
        LET target == g.enemies[k]
            damage == ShotDamage(g, t, owner, target, draws)
            chained == IF t.type = "wizard" /\ ChainCount > 1
                         THEN Chain(g.enemies, k, damage, t.owner_id, ChainCount - 1)
                         ELSE << >>
        IN [g EXCEPT
              !.towers[i].last_fired = now_ms,
              !.projectiles =
                 Append(@, Projectile(At(t).x, At(t).y, target.id, damage, 160,
                                      t.type, t.owner_id)) \o chained,
              !.enemies[k] = SpecialEffects(t, target, now_ms)]

RECURSIVE TowerLoop(_, _, _, _)
TowerLoop(g, i, now_ms, draws) ==
  IF i > Len(g.towers) THEN g
  ELSE TowerLoop(TowerStep(g, i, now_ms, draws), i + 1, now_ms, draws)

TowerStage(g, now_ms, draws) == TowerLoop(g, 1, now_ms, draws)

\* mutant: a projectile whose target is gone turns to the first live enemy
FindEnemy_fallback(enemies, target_id) ==
  IF \E i \in 1..Len(enemies) : enemies[i].id = target_id
    THEN CHOOSE i \in 1..Len(enemies) :
           /\ enemies[i].id = target_id
           /\ \A j \in 1..(i - 1) : enemies[j].id # target_id
    ELSE IF Len(enemies) > 0 THEN 1 ELSE 0

\* next((e for e in self.enemies if e.id == proj.target_id), None), 0 for None
FindEnemy(enemies, target_id) ==
  IF \E i \in 1..Len(enemies) : enemies[i].id = target_id
    THEN CHOOSE i \in 1..Len(enemies) :
           /\ enemies[i].id = target_id
           /\ \A j \in 1..(i - 1) : enemies[j].id # target_id
    ELSE 0

\* mortar splash: half the damage to every other enemy within the radius
Splash(enemies, k, proj) ==
  IF proj.type # "mortar" THEN enemies
  ELSE [i \in 1..Len(enemies) |->
          IF /\ enemies[i].id # enemies[k].id
             /\ Dist2(enemies[k], enemies[i]) <= (20 * SplashRadius) * (20 * SplashRadius)
            THEN [enemies[i] EXCEPT !.health = @ - proj.damage \div 2]
            ELSE enemies[i]]

\* int(target.reward * killBonusMultiplier), killBonusMultiplier = 1.0 + level * 0.05
KillBonus(reward, level) == (reward * (100 + 5 * level)) \div 100

\* the kill check after a hit: gold, kill count and score go to the
\* projectile's owner whenever the target's health is at or below zero
KillCredit(g, proj, target, draws) ==
  IF target.health <= 0 /\ proj.owner_id \in DOMAIN g.players
    THEN [g EXCEPT
            !.players[proj.owner_id].gold =
               @ + KillBonus(target.reward, g.players[proj.owner_id].stats.killBonus),
            !.players[proj.owner_id].enemies_killed = @ + 1,
            !.players[proj.owner_id].score = @ + target.reward,
            !.troops =
               IF proj.type = "necromancer" /\ draws.skeleton
                 THEN Append(@, Troop(<<0, target.id>>, target.x, target.y, 30000, 10,
                                      proj.owner_id, "skeleton"))
                 ELSE @]
    ELSE g

\* the body of the projectile loop for the projectile p: the game afterwards
\* and the projectile if it stays in flight
ProjectileStep(g, p, draws) ==
  LET k == FindEnemy(g.enemies, p.target_id) IN
  IF k = 0 THEN [game |-> g, kept |-> << >>]
  ELSE
    LET target == g.enemies[k] IN
    IF Dist2(p, target) < (p.speed * 2) * (p.speed * 2)
      THEN LET hit == [g EXCEPT !.enemies[k].health = @ - p.damage]
               splashed == [hit EXCEPT !.enemies = Splash(hit.enemies, k, p)]
               tracked == IF p.owner_id \in DOMAIN g.players
                            THEN [splashed EXCEPT
                                    !.players[p.owner_id].damage_dealt = @ + p.damage]
                            ELSE splashed
           IN [game |-> KillCredit(tracked, p, tracked.enemies[k], draws), kept |-> << >>]
      ELSE [game |-> g, kept |-> <<StepToward(p, target, p.speed)>>]

RECURSIVE ProjectileLoop(_, _, _, _)
ProjectileLoop(g, todo, kept, draws) ==
  IF todo = << >> THEN [g EXCEPT !.projectiles = kept]
  ELSE LET r == ProjectileStep(g, Head(todo), draws)
       IN ProjectileLoop(r.game, Tail(todo), kept \o r.kept, draws)

ProjectileStage(g, draws) == ProjectileLoop(g, g.projectiles, << >>, draws)

\* mutant: the aura restores health without the cap
HealerStage_uncapped(g, delta_time) ==
  LET healers(i) ==
        Cardinality({h \in 1..Len(g.enemies) :
                       /\ g.enemies[h].heals
                       /\ g.enemies[h].id # g.enemies[i].id
                       /\ Dist2(g.enemies[h], g.enemies[i]) < 1600 * 1600})
  IN [g EXCEPT !.enemies =
        [i \in 1..Len(g.enemies) |->
           [g.enemies[i] EXCEPT !.health = @ + healers(i) * 500 * (delta_time \div 16)]]]

\* healer enemies: every other enemy within 80 pixels of a healer regains
\* 0.5 * (delta / 16) hit points per healer, up to its maximum
HealerStage(g, delta_time) ==
  LET healers(i) ==
        Cardinality({h \in 1..Len(g.enemies) :
                       /\ g.enemies[h].heals
                       /\ g.enemies[h].id # g.enemies[i].id
                       /\ Dist2(g.enemies[h], g.enemies[i]) < 1600 * 1600})
      healed(e, n) ==
        IF n = 0 THEN e
        ELSE [e EXCEPT !.health =
                IF @ + n * 500 * (delta_time \div 16) < e.max_health
                  THEN @ + n * 500 * (delta_time \div 16)
                  ELSE e.max_health]
  IN [g EXCEPT !.enemies = [i \in 1..Len(g.enemies) |-> healed(g.enemies[i], healers(i))]]

\* the body of the troop loop for troop i: within 20 pixels of the nearest
\* enemy (of those within 200) the troop fights, otherwise it walks 2 pixels
TroopStep(g, i, delta_time) ==
  LET troop == g.troops[i]
      k == Closest(g.enemies, troop,
                   {j \in 1..Len(g.enemies) : Dist2(troop, g.enemies[j]) < 4000 * 4000})
  IN IF k = 0 THEN g
     ELSE IF Dist2(troop, g.enemies[k]) < 400 * 400
       THEN [g EXCEPT !.enemies[k].health = @ - troop.damage * 2 * delta_time,
                      !.troops[i].health = @ - 4 * delta_time]
       ELSE [g EXCEPT !.troops[i] = StepToward(troop, g.enemies[k], 40)]

RECURSIVE TroopLoop(_, _, _)
TroopLoop(g, i, delta_time) ==
  IF i > Len(g.troops) THEN g
  ELSE TroopLoop(TroopStep(g, i, delta_time), i + 1, delta_time)

TroopStage(g, delta_time) ==
  LET fought == TroopLoop(g, 1, delta_time)
  IN [fought EXCEPT !.troops = SelectSeq(@, LAMBDA t : t.health > 0)]

\* mutant: the wave is over as soon as the spawn queue is empty
WaveCompleteCheck_queue(g) ==
  IF g.wave_in_progress /\ Len(g.enemies_to_spawn) = 0
    THEN [g EXCEPT !.wave_in_progress = FALSE]
    ELSE g

WaveCompleteCheck(g) ==
  IF g.wave_in_progress /\ Len(g.enemies) = 0 /\ Len(g.enemies_to_spawn) = 0
    THEN [g EXCEPT !.wave_in_progress = FALSE]
    ELSE g

\* mutant: the game-over check reads the maximum instead of the current health
GameOverCheck_maximum(g) ==
  IF g.max_castle_health <= 0 THEN [g EXCEPT !.state = "ended"] ELSE g

GameOverCheck(g) ==
  IF g.castle_health <= 0 THEN [g EXCEPT !.state = "ended"] ELSE g

\* the first stages of update: spawning and the enemy loop
UpdateEnemies(g, delta_time, now_ms) ==
  EnemyStage(SpawnStage(g, delta_time), delta_time, now_ms)

\* mutant: the healer aura runs before the towers fire
UpdateDefence_aura_first(g, delta_time, now_ms, draws) ==
  LET healed == HealerStage(g, delta_time)
      fired == TowerStage(healed, now_ms, draws)
      flown == ProjectileStage(fired, draws)
      fought == TroopStage(flown, delta_time)
  IN GameOverCheck(WaveCompleteCheck(fought))

\* the later stages of update: towers, projectiles, healers, troops, and the
\* wave-complete and game-over checks
UpdateDefence(g, delta_time, now_ms, draws) ==
  LET fired == TowerStage(g, now_ms, draws)
      flown == ProjectileStage(fired, draws)
      healed == HealerStage(flown, delta_time)
      fought == TroopStage(healed, delta_time)
  IN GameOverCheck(WaveCompleteCheck(fought))

\* CastleGame.update; now_ms is int(time.time() * 1000), draws the side every
\* random.random() of the update falls on
update(g, delta_time, now_ms, draws) ==
  IF g.state # "playing" THEN g
  ELSE UpdateDefence(UpdateEnemies(g, delta_time, now_ms), delta_time, now_ms, draws)

\* ------------------------------------------------------------- end of game
\* xp_for_level: int(100 * 1.5 ** (level - 1))
XpTable ==
  <<100, 150, 225, 337, 506, 759, 1139, 1708, 2562, 3844, 5766, 8649, 12974,
    19461, 29192, 43789>>

xp_for_level(level) == XpTable[level]

\* the while loop of CastlePlayer.add_xp
RECURSIVE LevelUp(_)
LevelUp(profile) ==
  IF profile.xp >= xp_for_level(profile.level + 1)
    THEN LevelUp([profile EXCEPT !.xp = @ - xp_for_level(profile.level + 1),
                                 !.level = @ + 1,
                                 !.perk_points = @ + 1])
    ELSE profile

add_xp(profile, amount) == LevelUp([profile EXCEPT !.xp = @ + amount])

\* int((50 + wave * 20 + kills * 2 + (players - 1) * 15) * xpMultiplier)
TotalXp(g, s) ==
  ((50 + g.wave * 20 + g.players[s].enemies_killed * 2
       + (Cardinality(DOMAIN g.players) - 1) * 15)
     * (10 + g.players[s].stats.xpBonus)) \div 10

\* CastleGame.end_game: the profiles after every roster player's XP is applied
RECURSIVE end_game(_, _, _)
end_game(g, profs, todo) ==
  IF todo = {} THEN profs
  ELSE LET s == CHOOSE s \in todo : TRUE
           p == g.players[s].profile
       IN end_game(g,
                   [profs EXCEPT ![p] = [add_xp(@, TotalXp(g, s)) EXCEPT
                                           !.total_games_played = @ + 1]],
                   todo \ {s})


\* ------------------------------------------------------------------- state
VARIABLES
  games,              \* the CastleGame objects alive: id -> game
  registry,           \* cd_game_manager.games: the ids registered
  next_game,          \* the next fresh game id
  cd_socket_to_game,  \* socket id -> game id, None when absent
  socket_to_player,   \* cd_player_manager.socket_to_player, None when absent
  sockets,            \* each connection: "open" or "closed"
  profiles,           \* cd_player_manager.players: profile id -> CastlePlayer
  threads,            \* the handler each server thread is running
  now,                \* the wall clock (ms) read by the driver
  next_id             \* the next fresh tower id (uuid4)

vars ==
  <<games, registry, next_game, cd_socket_to_game, socket_to_player, sockets,
    profiles, threads, now, next_id>>

Idle == [op |-> "idle"]

\* the clock after LateTicks updates of 48 ms
LateTime == StartTime + 48 * LateTicks

\* the time of a session BattleTicks driver passes old
BattleTime == StartTime + 48 * BattleTicks

\* the time of a session HealTicks driver passes old
HealTime == StartTime + 48 * HealTicks

\* inputs
LoginInputs(sid) == {((sid - 1) % NumProfiles) + 1}
DeltaTimes == {48}
Rolls == {50, 900}
Draws == [crit : BOOLEAN, skeleton : BOOLEAN]
TowerInputs == {"cannon", "barracks", "catapult", ""}
IntKey(p) == [kind |-> "int", v |-> p]
PlotKeys ==
  {[kind |-> "int", v |-> p] : p \in 0..NumPlots}
    \cup {[kind |-> "str", v |-> 0], [kind |-> "bad", v |-> 0]}

Init ==
  /\ games = <<>>
  /\ registry = {}
  /\ next_game = 1
  /\ cd_socket_to_game = [s \in Sockets |-> None]
  /\ socket_to_player = [s \in Sockets |-> None]
  /\ sockets = [s \in Sockets |-> "open"]
  /\ profiles = [p \in Profiles |-> StoredProfile(p)]
  /\ threads = [t \in AllThreads |-> Idle]
  /\ now = StartTime
  /\ next_id = 1

\* the game objects still reachable: registered, or held by a running thread
Reachable(gs, reg, thr) ==
  [g \in {g \in DOMAIN gs :
            g \in reg \/ \E t \in DOMAIN thr : thr[t] # Idle /\ thr[t].game = g}
     |-> gs[g]]

Min(S) == CHOOSE m \in S : \A n \in S : m <= n

\* -------------------------------------------------------- socket handlers
\* handle_cd_login
handle_cd_login(sid, player_id) ==
  /\ sockets[sid] = "open"
  /\ socket_to_player' = [socket_to_player EXCEPT ![sid] = player_id]
  /\ UNCHANGED <<games, registry, next_game, cd_socket_to_game, sockets,
                 profiles, threads, now, next_id>>

\* mutant: matchmaking takes the first registered session, whatever its state
FindWaiting_registered == IF registry = {} THEN None ELSE Min(registry)

\* CastleGameManager.find_or_create_game: the first registered game that is
\* waiting and has room, else None (a new game is then created)
FindWaiting ==
  LET open == {g \in registry : /\ games[g].state = "waiting"
                                /\ Cardinality(DOMAIN games[g].players) < MaxPlayers}
  IN IF open = {} THEN None ELSE Min(open)

\* handle_cd_join_game up to and including find_or_create_game
JoinFind(t, sid) ==
  /\ threads[t] = Idle
  /\ sockets[sid] = "open"
  /\ IF socket_to_player[sid] = None
       THEN UNCHANGED <<games, registry, next_game, threads>>
     ELSE IF FindWaiting # None
       THEN /\ threads' = [threads EXCEPT ![t] =
                 [op |-> "join", sid |-> sid, game |-> FindWaiting,
                  profile |-> socket_to_player[sid]]]
            /\ UNCHANGED <<games, registry, next_game>>
       ELSE /\ next_game <= MaxGames
            /\ games' = DictSet(games, next_game, CastleGame(next_game))
            /\ registry' = registry \cup {next_game}
            /\ next_game' = next_game + 1
            /\ threads' = [threads EXCEPT ![t] =
                 [op |-> "join", sid |-> sid, game |-> next_game,
                  profile |-> socket_to_player[sid]]]
  /\ UNCHANGED <<cd_socket_to_game, socket_to_player, sockets, profiles, now, next_id>>

\* mutant: joining leaves the session waiting
StartOnJoin_never(g) == g

\* mutant: joining restarts a session that is not playing
StartOnJoin_restart(g) == IF g.state # "playing" THEN [g EXCEPT !.state = "playing"] ELSE g

\* "Start game if in waiting state" of handle_cd_join_game
StartOnJoin(g) == IF g.state = "waiting" THEN [g EXCEPT !.state = "playing"] ELSE g

\* handle_cd_join_game from add_player on: the player enters the roster, the
\* socket is mapped to the game, and a waiting game is set to playing
JoinEnter(t) ==
  /\ threads[t].op = "join"
  /\ LET f == threads[t]
         joined == add_player(games[f.game], f.sid, f.profile, profiles[f.profile])
         started == StartOnJoin(joined)
         thr == [threads EXCEPT ![t] = Idle]
     IN /\ threads' = thr
        /\ games' = Reachable([games EXCEPT ![f.game] = started], registry, thr)
        /\ cd_socket_to_game' = [cd_socket_to_game EXCEPT ![f.sid] = f.game]
  /\ UNCHANGED <<registry, next_game, socket_to_player, sockets, profiles, now, next_id>>

\* handle_cd_start_wave
handle_cd_start_wave(sid, roll) ==
  /\ sockets[sid] = "open"
  /\ LET game_id == cd_socket_to_game[sid] IN
     IF game_id = None \/ game_id \notin registry
       THEN UNCHANGED games
     ELSE IF games[game_id].state # "playing"
       THEN UNCHANGED games
     ELSE /\ games[game_id].wave_in_progress \/ games[game_id].wave < MaxWave
          /\ games' = [games EXCEPT ![game_id] =
               start_wave(@, [i \in 1..BaseCount(games[game_id].wave + 1) |-> roll])]
  /\ UNCHANGED <<registry, next_game, cd_socket_to_game, socket_to_player, sockets,
                 profiles, threads, now, next_id>>

\* player.profile.level of every profile
Levels(profs) == [p \in DOMAIN profs |-> profs[p].level]

\* int(data.get('plotId', -1)) of handle_cd_place_tower
ParsesAsInt(plot_key) == plot_key.kind \in {"int", "str"}

\* handle_cd_place_tower.  The reply of a failed command is emitted to the
\* caller and changes no state.
handle_cd_place_tower(sid, plot_key, tower_type) ==
  /\ sockets[sid] = "open"
  /\ next_id <= MaxIds
  /\ LET game_id == cd_socket_to_game[sid] IN
     IF \/ game_id = None
        \/ game_id \notin registry
        \/ ~ParsesAsInt(plot_key)
        \/ tower_type = ""
       THEN UNCHANGED <<games, next_id>>
       ELSE LET result == place_tower(games[game_id], Levels(profiles),
                                      sid, plot_key.v, tower_type, next_id)
            IN /\ games' = [games EXCEPT ![game_id] = result.game]
               /\ next_id' = IF result.success THEN next_id + 1 ELSE next_id
  /\ UNCHANGED <<registry, next_game, cd_socket_to_game, socket_to_player, sockets,
                 profiles, threads, now>>

\* handle_cd_sell_tower
handle_cd_sell_tower(sid, plot_key) ==
  /\ sockets[sid] = "open"
  /\ LET game_id == cd_socket_to_game[sid] IN
     IF game_id = None \/ game_id \notin registry
       THEN UNCHANGED games
       ELSE games' = [games EXCEPT ![game_id] = sell_tower(@, sid, plot_key).game]
  /\ UNCHANGED <<registry, next_game, cd_socket_to_game, socket_to_player, sockets,
                 profiles, threads, now, next_id>>

\* mutant: the session stays registered when its last player has left
handle_cd_disconnect_keeps(sid) ==
  /\ sockets[sid] = "open"
  /\ sockets' = [sockets EXCEPT ![sid] = "closed"]
  /\ cd_socket_to_game' = [cd_socket_to_game EXCEPT ![sid] = None]
  /\ socket_to_player' = [socket_to_player EXCEPT ![sid] = None]
  /\ LET game_id == cd_socket_to_game[sid] IN
     IF game_id = None \/ game_id \notin registry
       THEN UNCHANGED <<games, registry>>
       ELSE /\ UNCHANGED registry
            /\ games' = [games EXCEPT ![game_id] = remove_player(@, sid)]
  /\ UNCHANGED <<next_game, profiles, threads, now, next_id>>

\* handle_cd_disconnect
handle_cd_disconnect(sid) ==
  /\ sockets[sid] = "open"
  /\ sockets' = [sockets EXCEPT ![sid] = "closed"]
  /\ cd_socket_to_game' = [cd_socket_to_game EXCEPT ![sid] = None]
  /\ socket_to_player' = [socket_to_player EXCEPT ![sid] = None]
  /\ LET game_id == cd_socket_to_game[sid] IN
     IF game_id = None \/ game_id \notin registry
       THEN UNCHANGED <<games, registry>>
       ELSE LET left == remove_player(games[game_id], sid)
                reg == IF DOMAIN left.players = {}
                         THEN registry \ {game_id} ELSE registry
            IN /\ registry' = reg
               /\ games' = Reachable([games EXCEPT ![game_id] = left], reg, threads)
  /\ UNCHANGED <<next_game, profiles, threads, now, next_id>>

\* ------------------------------------------------------ background driver
\* one pass of the for loop of castle_defenders_tick over the games in todo,
\* in registration order: [games, profiles] afterwards
RECURSIVE DriveGames(_, _, _, _, _, _)
DriveGames(gs, profs, todo, delta_time, now_ms, draws) ==
  IF todo = {} THEN [games |-> gs, profiles |-> profs]
  ELSE
    LET id == Min(todo)
        g == gs[id]
    IN IF g.state # "playing"
         THEN DriveGames(gs, profs, todo \ {id}, delta_time, now_ms, draws)
         ELSE LET u == update(g, delta_time, now_ms, draws)
              IN DriveGames([gs EXCEPT ![id] = u],
                            IF u.state = "ended"
                              THEN end_game(u, profs, DOMAIN u.players)
                              ELSE profs,
                            todo \ {id}, delta_time, now_ms, draws)

\* a random.random() of the update can fall below a positive chance only:
\* some tower has a critical-hit chance, some projectile is a necromancer's
CanCrit(g) ==
  \E i \in 1..Len(g.towers) :
    /\ g.towers[i].owner_id \in DOMAIN g.players
    /\ 2 * g.players[g.towers[i].owner_id].stats.critChance + CritChance(g.towers[i].type) > 0

CanRaise(g) == \E i \in 1..Len(g.projectiles) : g.projectiles[i].type = "necromancer"

\* the time the driver has been observed for
Elapsed(now_ms) ==
  IF now_ms >= LateTime THEN now_ms - LateTime
  ELSE IF now_ms >= HealTime THEN ((now_ms - HealTime) * MaxTicks) \div BattleRun
  ELSE IF now_ms >= BattleTime THEN ((now_ms - BattleTime) * MaxTicks) \div BattleRun
  ELSE now_ms - StartTime

\* one iteration of the while loop of castle_defenders_tick
castle_defenders_tick(delta_time, draws) ==
  /\ threads[Driver] = Idle
  /\ Elapsed(now) < MaxTicks * delta_time
  /\ draws.crit => \E g \in registry : CanCrit(games[g])
  /\ draws.skeleton => \E g \in registry : CanRaise(games[g])
  /\ now' = now + delta_time
  /\ LET after == DriveGames(games, profiles, registry, delta_time, now + delta_time, draws)
     IN /\ games' = after.games
        /\ profiles' = after.profiles
  /\ UNCHANGED <<registry, next_game, cd_socket_to_game, socket_to_player, sockets,
                 threads, next_id>>

Next ==
  \/ \E s \in Sockets : \E p \in LoginInputs(s) : handle_cd_login(s, p)
  \/ \E t \in Threads, s \in Sockets : JoinFind(t, s)
  \/ \E t \in Threads : JoinEnter(t)
  \/ \E s \in Sockets, r \in Rolls : handle_cd_start_wave(s, r)
  \/ \E s \in Sockets, k \in PlotKeys, ty \in TowerInputs : handle_cd_place_tower(s, k, ty)
  \/ \E s \in Sockets, k \in PlotKeys : handle_cd_sell_tower(s, k)
  \/ \E s \in Sockets : handle_cd_disconnect(s)
  \/ \E dt \in DeltaTimes, d \in Draws : castle_defenders_tick(dt, d)

Spec == Init /\ [][Next]_vars

\* ------------------------------------------------------- a session near its end
\* one update of a session in which a wave is started as soon as none is in
\* progress (every draw of the wave composition picks a grunt)
PlayedOn(g, now_ms) ==
  LET rolls == [i \in 1..BaseCount(g.wave + 1) |-> 900]
  IN update(start_wave(g, rolls), 48, now_ms + 48, [crit |-> FALSE, skeleton |-> FALSE])

\* the session after n such updates
RECURSIVE Played(_, _, _)
Played(g, now_ms, n) ==
  IF n = 0 THEN g
  ELSE IF n = 1 THEN PlayedOn(g, now_ms)
  ELSE LET half == Played(g, now_ms, n \div 2)
       IN IF half.wave >= 0
            THEN Played(half, now_ms + 48 * (n \div 2), n - n \div 2)
            ELSE half

\* the session of one new player who builds nothing, LateTicks updates after
\* joining: one update before the castle falls in wave 7
LateGame ==
  Played(StartOnJoin(add_player(CastleGame(1), 1, 1, StoredProfile(1))), StartTime, LateTicks)

\* The server some minutes into that session.  The player's connection sent
\* its join twice; the second handler is still between find_or_create_game
\* and add_player.
InitLate ==
  /\ games = <<LateGame>>
  /\ registry = {1}
  /\ next_game = 2
  /\ cd_socket_to_game = [s \in Sockets |-> IF s = 1 THEN 1 ELSE None]
  /\ socket_to_player = [s \in Sockets |-> IF s = 1 THEN 1 ELSE None]
  /\ sockets = [s \in Sockets |-> "open"]
  /\ profiles = [p \in Profiles |-> StoredProfile(p)]
  /\ threads = [t \in AllThreads |->
                  IF t = NumThreads
                    THEN [op |-> "join", sid |-> 1, game |-> 1, profile |-> 1]
                    ELSE Idle]
  /\ now = LateTime
  /\ next_id = 1

SpecLate == InitLate /\ [][Next]_vars

\* ------------------------------------------------- threads, step by step
\* Socket.IO runs in threading mode: every event handler runs in a thread of
\* its own and the driver in the thread CastleDefendersTick.  No lock guards a
\* session, so a thread can be preempted between any two statements.  Here
\* place_tower can be preempted between its checks and its writes, and update
\* between its enemy loop and its tower loop.

\* handle_cd_place_tower up to the last check of place_tower
PlaceCheck(t, sid, plot_key, tower_type) ==
  /\ threads[t] = Idle
  /\ sockets[sid] = "open"
  /\ next_id <= MaxIds
  /\ LET game_id == cd_socket_to_game[sid] IN
     IF \/ game_id = None
        \/ game_id \notin registry
        \/ ~ParsesAsInt(plot_key)
        \/ tower_type = ""
       THEN UNCHANGED threads
       ELSE LET g == games[game_id]
                result == place_tower(g, Levels(profiles), sid, plot_key.v,
                                      tower_type, next_id)
            IN IF result.success
                 THEN threads' = [threads EXCEPT ![t] =
                        [op |-> "place", sid |-> sid, game |-> game_id,
                         plot_id |-> plot_key.v, tower_type |-> tower_type,
                         cost |-> DiscountedCost(TOWER_TYPES[tower_type].cost,
                                                 g.players[sid].stats.towerDiscount)]]
                 ELSE UNCHANGED threads
  /\ UNCHANGED <<games, registry, next_game, cd_socket_to_game, socket_to_player,
                 sockets, profiles, now, next_id>>

\* place_tower from `player.gold -= cost` on
PlaceCommit(t) ==
  /\ threads[t].op = "place"
  /\ LET f == threads[t]
         thr == [threads EXCEPT ![t] = Idle]
     IN /\ threads' = thr
        /\ games' = Reachable(
                       [games EXCEPT ![f.game] =
                          Placed(@, f.sid, f.plot_id, f.tower_type, next_id, f.cost)],
                       registry, thr)
  /\ next_id' = next_id + 1
  /\ UNCHANGED <<registry, next_game, cd_socket_to_game, socket_to_player, sockets,
                 profiles, now>>

\* castle_defenders_tick up to the end of the enemy loop of the update of the
\* first playing game
DriverBegin(delta_time, draws) ==
  /\ threads[Driver] = Idle
  /\ Elapsed(now) < MaxTicks * delta_time
  /\ draws.crit => \E g \in registry : CanCrit(games[g])
  /\ draws.skeleton => \E g \in registry : CanRaise(games[g])
  /\ \E g \in registry : games[g].state = "playing"
  /\ LET id == Min({g \in registry : games[g].state = "playing"}) IN
     /\ games' = [games EXCEPT ![id] = UpdateEnemies(@, delta_time, now + delta_time)]
     /\ threads' = [threads EXCEPT ![Driver] =
          [op |-> "update", game |-> id, delta_time |-> delta_time,
           now_ms |-> now + delta_time, draws |-> draws,
           todo |-> {g \in registry : g > id}]]
  /\ now' = now + delta_time
  /\ UNCHANGED <<registry, next_game, cd_socket_to_game, socket_to_player, sockets,
                 profiles, next_id>>

\* the rest of that update.  The driver then sends the state to the players:
\* `for player_id in game.players` iterates the roster dict while it emits.
DriverEnd ==
  /\ threads[Driver].op = "update"
  /\ LET f == threads[Driver]
         u == UpdateDefence(games[f.game], f.delta_time, f.now_ms, f.draws)
     IN /\ games' = [games EXCEPT ![f.game] = u]
        /\ threads' = [threads EXCEPT ![Driver] =
             [op |-> "emit", game |-> f.game, delta_time |-> f.delta_time,
              now_ms |-> f.now_ms, draws |-> f.draws, todo |-> f.todo,
              roster |-> Cardinality(DOMAIN u.players)]]
  /\ UNCHANGED <<registry, next_game, cd_socket_to_game, socket_to_player, sockets,
                 profiles, now, next_id>>

\* the end of that loop.  A dict whose size changed while it is iterated
\* raises RuntimeError at the next step of the iteration; the except clause
\* of the driver prints it and the pass is over.  Otherwise the end-of-game
\* handling and the rest of the pass follow.
DriverDone ==
  /\ threads[Driver].op = "emit"
  /\ LET f == threads[Driver]
         thr == [threads EXCEPT ![Driver] = Idle]
         g == games[f.game]
     IN /\ threads' = thr
        /\ IF Cardinality(DOMAIN g.players) # f.roster
             THEN /\ games' = Reachable(games, registry, thr)
                  /\ UNCHANGED profiles
             ELSE LET profs == IF g.state = "ended"
                                 THEN end_game(g, profiles, DOMAIN g.players)
                                 ELSE profiles
                      after == DriveGames(games, profs, f.todo \cap DOMAIN games,
                                          f.delta_time, f.now_ms, f.draws)
                  IN /\ games' = Reachable(after.games, registry, thr)
                     /\ profiles' = after.profiles
  /\ UNCHANGED <<registry, next_game, cd_socket_to_game, socket_to_player, sockets,
                 now, next_id>>

NextThreads ==
  \/ \E s \in Sockets : \E p \in LoginInputs(s) : handle_cd_login(s, p)
  \/ \E t \in Threads, s \in Sockets : JoinFind(t, s)
  \/ \E t \in Threads : JoinEnter(t)
  \/ \E s \in Sockets : handle_cd_start_wave(s, 900)
  \/ \E t \in Threads, s \in Sockets : PlaceCheck(t, s, IntKey(0), "cannon")
  \/ \E t \in Threads : PlaceCommit(t)
  \/ \E s \in Sockets : handle_cd_sell_tower(s, IntKey(0))
  \/ \E s \in Sockets : handle_cd_disconnect(s)
  \/ \E dt \in DeltaTimes : DriverBegin(dt, [crit |-> FALSE, skeleton |-> FALSE])
  \/ DriverEnd
  \/ DriverDone

SpecThreads == Init /\ [][NextThreads]_vars


\* ------------------------------------------- the end of a shared session
\* the session of two players whose joins overlapped at the start (both found
\* the game waiting), LateTicks updates later, neither having built anything
LateGame2 ==
  Played(add_player(StartOnJoin(add_player(CastleGame(1), 1, 1, StoredProfile(1))),
                    2, 2, StoredProfile(2)),
         StartTime, LateTicks)

InitEnd ==
  /\ games = <<LateGame2>>
  /\ registry = {1}
  /\ next_game = 2
  /\ cd_socket_to_game = [s \in Sockets |-> IF s <= 2 THEN 1 ELSE None]
  /\ socket_to_player = [s \in Sockets |-> IF s <= 2 THEN s ELSE None]
  /\ sockets = [s \in Sockets |-> "open"]
  /\ profiles = [p \in Profiles |-> StoredProfile(p)]
  /\ threads = [t \in AllThreads |-> Idle]
  /\ now = LateTime
  /\ next_id = 1

\* the steps of the handlers of the two players and of the driver
NextEnd ==
  \/ \E t \in Threads, s \in Sockets : PlaceCheck(t, s, IntKey(0), "cannon")
  \/ \E t \in Threads : PlaceCommit(t)
  \/ \E s \in Sockets : handle_cd_sell_tower(s, IntKey(0))
  \/ \E s \in Sockets : handle_cd_disconnect(s)
  \/ \E dt \in DeltaTimes : DriverBegin(dt, [crit |-> FALSE, skeleton |-> FALSE])
  \/ DriverEnd
  \/ DriverDone

SpecEnd == InitEnd /\ [][NextEnd]_vars

\* --------------------------------------------------- sessions between waves
\* a fresh profile and one that bought the wave-bonus perk three times and
\* the gold-interest perk five times
WaveProfile(p) ==
  IF p = 1
    THEN CastlePlayer(1, 0, NoPerks)
    ELSE CastlePlayer(9, 0, [NoPerks EXCEPT !.waveBonus = 3, !.goldInterest = 5])

\* the balances the two players hold
GoldChoices == {<<0, 199>>, <<1000, 40>>}

\* A session of two players whose joins overlapped, some waves later.  With
\* in_progress, wave `wave` has just been started and no update has run yet;
\* without it the wave is over: the queue is empty and the spawn clock still
\* holds the time the last entry was spawned at.
WaveGame(wave, in_progress, gold) ==
  LET joined == add_player(StartOnJoin(add_player(CastleGame(1), 1, 1, WaveProfile(1))),
                           2, 2, WaveProfile(2))
      rolls == [i \in 1..BaseCount(wave) |-> 900]
  IN [joined EXCEPT
        !.wave = wave,
        !.wave_in_progress = in_progress,
        !.players = [s \in DOMAIN joined.players |->
                       [joined.players[s] EXCEPT !.gold = gold[s]]],
        !.enemies_to_spawn = IF in_progress THEN generate_wave_enemies(wave, rolls)
                             ELSE <<>>,
        !.spawn_timer = IF in_progress \/ wave = 0 THEN 0
                        ELSE (BaseCount(wave) - 1) * 400 + 16]

InitWave ==
  /\ \E wave \in 0..(MaxWave - 1), in_progress \in BOOLEAN, gold \in GoldChoices :
       /\ in_progress => wave >= 1
       /\ games = <<WaveGame(wave, in_progress, gold)>>
  /\ registry = {1}
  /\ next_game = 2
  /\ cd_socket_to_game = [s \in Sockets |-> IF s <= 2 THEN 1 ELSE None]
  /\ socket_to_player = [s \in Sockets |-> IF s <= 2 THEN s ELSE None]
  /\ sockets = [s \in Sockets |-> "open"]
  /\ profiles = [p \in Profiles |-> WaveProfile(IF p <= 2 THEN p ELSE 1)]
  /\ threads = [t \in AllThreads |-> Idle]
  /\ now = StartTime
  /\ next_id = 1

NextWave ==
  \/ \E s \in Sockets, r \in Rolls : handle_cd_start_wave(s, r)
  \/ \E dt \in DeltaTimes, d \in Draws : castle_defenders_tick(dt, d)

SpecWave == InitWave /\ [][NextWave]_vars

\* ------------------------------------------------------- a rush of joiners
\* NumJoiners connections have logged in, and each sends cd:joinGame; every
\* event runs on a thread of its own, named after its socket
Joiners == 1..NumJoiners

InitJoin ==
  /\ games = <<>>
  /\ registry = {}
  /\ next_game = 1
  /\ cd_socket_to_game = [s \in Joiners |-> None]
  /\ socket_to_player = [s \in Joiners |-> ((s - 1) % NumProfiles) + 1]
  /\ sockets = [s \in Joiners |-> "open"]
  /\ profiles = [p \in Profiles |-> StoredProfile(p)]
  /\ threads = [t \in {Driver} \cup Joiners |-> Idle]
  /\ now = StartTime
  /\ next_id = 1

NextJoin ==
  \/ \E s \in Joiners : JoinFind(s, s)
  \/ \E s \in Joiners : JoinEnter(s)
  \/ \E s \in 1..NumLeavers : handle_cd_disconnect(s)

SpecJoin == InitJoin /\ [][NextJoin]_vars

\* ------------------------------------------------------ two sessions at once
\* The second player joined after the first one's session had started, and
\* was given a session of its own: two playing sessions, one player each.
InitPair ==
  /\ games = [id \in {1, 2} |->
                StartOnJoin(add_player(CastleGame(id), id, id, StoredProfile(id)))]
  /\ registry = {1, 2}
  /\ next_game = 3
  /\ cd_socket_to_game = [s \in Sockets |-> IF s <= 2 THEN s ELSE None]
  /\ socket_to_player = [s \in Sockets |-> IF s <= 2 THEN s ELSE None]
  /\ sockets = [s \in Sockets |-> "open"]
  /\ profiles = [p \in Profiles |-> StoredProfile(p)]
  /\ threads = [t \in AllThreads |-> Idle]
  /\ now = StartTime
  /\ next_id = 1

NextPair ==
  \/ \E s \in Sockets : handle_cd_start_wave(s, 900)
  \/ \E t \in Threads, s \in Sockets : PlaceCheck(t, s, IntKey(0), "cannon")
  \/ \E t \in Threads : PlaceCommit(t)
  \/ \E s \in Sockets : handle_cd_disconnect(s)
  \/ \E dt \in DeltaTimes : DriverBegin(dt, [crit |-> FALSE, skeleton |-> FALSE])
  \/ DriverEnd
  \/ DriverDone

SpecPair == InitPair /\ [][NextPair]_vars

\* ------------------------------------------------------- a wave under fire
\* Two players whose joins overlapped built an archer tower on plot 0 and a
\* wizard tower on plot 1, and the first wave was started; BattleTicks driver
\* passes later the second enemy has just been shot dead while another arrow
\* is still on its way to it.  The driver is followed for BattleRun passes
\* from there (Elapsed scales them to the MaxTicks of the other sessions).
BattleGame ==
  LET levels == Levels([p \in Profiles |-> StoredProfile(p)])
      joined == add_player(StartOnJoin(add_player(CastleGame(1), 1, 1, StoredProfile(1))),
                           2, 2, StoredProfile(2))
      archer == place_tower(joined, levels, 1, 0, "archer", 1).game
      wizard == place_tower(archer, levels, 2, 1, "wizard", 2).game
  IN Played(wizard, StartTime, BattleTicks)

\* the same two players with the archer on the lower plot and, StunLead
\* updates later, the second player's tesla on the upper plot; the replay
\* starts early enough to reach BattleTime after StunTicks updates, a few
\* updates before an arrow kills an enemy the tesla has just stunned
StunGame ==
  LET levels == Levels([p \in Profiles |-> StoredProfile(p)])
      start == BattleTime - 48 * StunTicks
      joined == add_player(StartOnJoin(add_player(CastleGame(1), 1, 1, StoredProfile(1))),
                           2, 2, StoredProfile(2))
      archer == place_tower(joined, levels, 1, 1, "archer", 1).game
      lead == Played(archer, start, StunLead)
      tesla == place_tower(lead, levels, 2, 0, "tesla", 2).game
  IN Played(tesla, start + 48 * StunLead, StunTicks - StunLead)

\* the session of BattleGame's builders n updates after the second has built:
\* HealTicks updates bring it into wave 5, when the boss has come within
\* range of the archer with both healers of the wave close behind
Besieged(n) ==
  LET levels == Levels([p \in Profiles |-> StoredProfile(p)])
      joined == add_player(StartOnJoin(add_player(CastleGame(1), 1, 1, StoredProfile(1))),
                           2, 2, StoredProfile(2))
      archer == place_tower(joined, levels, 1, 0, "archer", 1).game
      wizard == place_tower(archer, levels, 2, 1, "wizard", 2).game
  IN Played(wizard, StartTime, n)

\* the two builders some waves later, when wave GhostWave has just been
\* started and no update has run yet: its first enemy is a ghost (a draw
\* below 0.08), the others are grunts
PhaseGame ==
  LET levels == Levels([p \in Profiles |-> StoredProfile(p)])
      joined == add_player(StartOnJoin(add_player(CastleGame(1), 1, 1, StoredProfile(1))),
                           2, 2, StoredProfile(2))
      archer == place_tower(joined, levels, 1, 0, "archer", 1).game
      wizard == place_tower(archer, levels, 2, 1, "wizard", 2).game
      rolls == [i \in 1..BaseCount(GhostWave) |-> IF i = 1 THEN 50 ELSE 900]
  IN start_wave([wizard EXCEPT !.wave = GhostWave - 1], rolls)

\* the two builders EbbTicks updates after the second has built, a few
\* updates before the last grunt of wave 1 dies; the replay starts early
\* enough to reach BattleTime
EbbGame ==
  LET levels == Levels([p \in Profiles |-> StoredProfile(p)])
      joined == add_player(StartOnJoin(add_player(CastleGame(1), 1, 1, StoredProfile(1))),
                           2, 2, StoredProfile(2))
      archer == place_tower(joined, levels, 1, 0, "archer", 1).game
      wizard == place_tower(archer, levels, 2, 1, "wizard", 2).game
  IN Played(wizard, BattleTime - 48 * EbbTicks, EbbTicks)

\* the session of StunGame's builders when the tesla is built `lead` updates
\* after the archer and BattleTime is reached `ticks` updates after the archer
Stunning(lead, ticks) ==
  LET levels == Levels([p \in Profiles |-> StoredProfile(p)])
      start == BattleTime - 48 * ticks
      joined == add_player(StartOnJoin(add_player(CastleGame(1), 1, 1, StoredProfile(1))),
                           2, 2, StoredProfile(2))
      archer == place_tower(joined, levels, 1, 1, "archer", 1).game
      tesla == place_tower(Played(archer, start, lead), levels, 2, 0, "tesla", 2).game
  IN Played(tesla, start + 48 * lead, ticks - lead)

InitBattle ==
  /\ \E c \in {<<1, BattleTime>>, <<2, BattleTime>>, <<3, HealTime>>, <<4, BattleTime>>,
               <<5, BattleTime>>, <<6, BattleTime>>} :
       /\ games = << CASE c[1] = 1 -> BattleGame
                      [] c[1] = 2 -> StunGame
                      [] c[1] = 3 -> Besieged(HealTicks)
                      [] c[1] = 4 -> PhaseGame
                      [] c[1] = 5 -> EbbGame
                      [] c[1] = 6 -> Stunning(CreditLead, CreditTicks) >>
       /\ now = c[2]
  /\ registry = {1}
  /\ next_game = 2
  /\ cd_socket_to_game = [s \in Sockets |-> IF s <= 2 THEN 1 ELSE None]
  /\ socket_to_player = [s \in Sockets |-> IF s <= 2 THEN s ELSE None]
  /\ sockets = [s \in Sockets |-> "open"]
  /\ profiles = [p \in Profiles |-> StoredProfile(p)]
  /\ threads = [t \in AllThreads |-> Idle]
  /\ next_id = 3

NextBattle ==
  \/ \E s \in Sockets, r \in Rolls : handle_cd_start_wave(s, r)
  \/ \E s \in Sockets, k \in PlotKeys : handle_cd_sell_tower(s, k)
  \/ \E s \in Sockets : handle_cd_disconnect(s)
  \/ \E dt \in DeltaTimes, d \in Draws : castle_defenders_tick(dt, d)

SpecBattle == InitBattle /\ [][NextBattle]_vars

\* ================================================================== claims
PlayerLevels == Levels(profiles)

\* every tower type of the catalog and one that is not in it
TowerChoices == TowerNames \cup {"catapult"}

TowersOnPlot(g, p) == {i \in 1..Len(g.towers) : g.towers[i].plot_id = p}

\* C1: in every session, every tower of the tower list stands on an existing
\* plot whose tower field is that tower's id, no two towers share a plot, and
\* every plot's tower field is either empty or the id of a listed tower.
C1_PlotTowerBijection ==
  \A id \in DOMAIN games :
    LET g == games[id] IN
    /\ \A i \in 1..Len(g.towers) :
         /\ g.towers[i].plot_id \in DOMAIN g.plots
         /\ g.plots[g.towers[i].plot_id].tower = g.towers[i].id
    /\ \A p \in DOMAIN g.plots : Cardinality(TowersOnPlot(g, p)) <= 1
    /\ \A p \in DOMAIN g.plots :
         g.plots[p].tower # None =>
           \E i \in TowersOnPlot(g, p) : g.towers[i].id = g.plots[p].tower

\* C2: two placeTower commands of two players of one session for the same
\* free plot end with one tower on the plot: the towers standing on a plot
\* never belong to two different players.
C2_OnePlacementWins ==
  \A id \in DOMAIN games : \A p \in PlotIds :
    Cardinality({games[id].towers[i].owner_id : i \in TowersOnPlot(games[id], p)}) <= 1

\* the sessions a thread is executing in
Executing(id) == {t \in AllThreads : threads[t] # Idle /\ threads[t].game = id}

\* C3: at most one thread of control is inside a session at any moment: a
\* handler never runs while the driver updates the session or while another
\* handler for it runs.
C3_SingleWriter ==
  \A id \in DOMAIN games : Cardinality(Executing(id)) <= 1

\* C4: a placeTower or sellTower call that returns a failure returns the
\* session exactly as it was: no gold, counter, tower, troop or plot changes.
C4_FailureChangesNothing ==
  \A id \in DOMAIN games : \A s \in Sockets :
    /\ \A p \in 0..NumPlots : \A ty \in TowerChoices :
         LET r == place_tower(games[id], PlayerLevels, s, p, ty, next_id)
         IN ~r.success => r.game = games[id]
    /\ \A k \in PlotKeys :
         LET r == sell_tower(games[id], s, k)
         IN ~r.success => r.game = games[id]

\* a player who could pay for a cannon asks for an occupied plot, and a player
\* who cannot pay asks for a free one
C4_Witness ==
  \E id \in registry : \E s \in DOMAIN games[id].players : \E p, q \in PlotIds :
    /\ games[id].players[s].gold >= 100
    /\ place_tower(games[id], PlayerLevels, s, p, "cannon", next_id).error
         = "Plot already occupied"
    /\ \E s2 \in DOMAIN games[id].players :
         place_tower(games[id], PlayerLevels, s2, q, "cannon", next_id).error
           = "Not enough gold"

\* the failure the claim expects of placeTower, "" when it expects success
ExpectedPlaceError(g, s, p, ty) ==
  IF p \notin PlotIds THEN "Plot not found"
  ELSE IF g.plots[p].tower # None THEN "Plot already occupied"
  ELSE IF ty \notin TowerNames THEN "Invalid tower type"
  ELSE IF profiles[g.players[s].profile].level < TOWER_TYPES[ty].unlockLevel
    THEN "Requires level"
  ELSE IF g.players[s].gold
            < (TOWER_TYPES[ty].cost * (100 - 2 * g.players[s].stats.towerDiscount)) \div 100
    THEN "Not enough gold"
  ELSE ""

TowerOf(g, p) ==
  IF \E i \in 1..Len(g.towers) : g.towers[i].id = g.plots[p].tower
    THEN CHOOSE i \in 1..Len(g.towers) : g.towers[i].id = g.plots[p].tower
    ELSE 0

\* C7: a sellTower by the player who placed the tower on the plot succeeds,
\* credits floor(catalog cost * 0.6) whatever was paid, removes that tower
\* and no other, and frees the plot so that it can be built on again.
C7_SellRefundsAndFrees ==
  \A id \in DOMAIN games : \A s \in DOMAIN games[id].players : \A p \in PlotIds :
    LET g == games[id]
        i == TowerOf(g, p)
        r == sell_tower(g, s, IntKey(p))
        h == r.game
    IN (g.plots[p].tower # None /\ i # 0 /\ g.towers[i].owner_id = s) =>
         /\ r.success
         /\ r.refund = (TOWER_TYPES[g.towers[i].type].cost * 6) \div 10
         /\ h.players[s].gold = g.players[s].gold + r.refund
         /\ h.towers = [j \in 1..(Len(g.towers) - 1) |->
                          IF j < i THEN g.towers[j] ELSE g.towers[j + 1]]
         /\ h.plots[p].tower = None
         /\ h.plots[p].owner = None
         /\ \A q \in PlotIds \ {p} : h.plots[q] = g.plots[q]
         /\ \A ty \in TowerChoices :
              place_tower(h, PlayerLevels, s, p, ty, next_id).error
                \notin {"Plot already occupied", "Plot not found", "Player not found"}
         /\ h.players[s].gold >= TOWER_TYPES["cannon"].cost
              => place_tower(h, PlayerLevels, s, p, "cannon", next_id).success

\* a player with the discount perk bought a cannon for 98, sold it for 60 and
\* built again
C7_Witness ==
  \E id \in registry : \E s \in DOMAIN games[id].players :
    /\ games[id].players[s].stats.towerDiscount = 1
    /\ games[id].players[s].gold = 350 - 98 + 60 - 98
    /\ games[id].players[s].towers_built = 2
    /\ Len(games[id].towers) = 1

\* the connections whose commands the handlers route to session id
Callers(id) ==
  {s \in Sockets : sockets[s] = "open" /\ cd_socket_to_game[s] = id /\ id \in registry}

\* C8: a sellTower command from a connection other than the one that placed
\* the tower on the plot fails with the not-owner reason and changes nothing;
\* a sellTower that succeeds removes a tower the caller placed.
C8_OnlyOwnerSells ==
  \A id \in DOMAIN games : \A s \in Callers(id) : \A p \in PlotIds :
    LET g == games[id]
        i == TowerOf(g, p)
        r == sell_tower(g, s, IntKey(p))
    IN /\ (i # 0 /\ g.towers[i].owner_id # s) =>
            /\ ~r.success
            /\ r.error = "Not your tower"
            /\ r.refund = 0
            /\ r.game = g
       /\ r.success => (i # 0 /\ g.towers[i].owner_id = s)

\* a connected player shares a session with a tower placed by another
C8_Witness ==
  \E id \in registry : \E s \in Callers(id) : \E i \in 1..Len(games[id].towers) :
    /\ games[id].towers[i].owner_id # s
    /\ games[id].towers[i].owner_id \in Callers(id)

\* C9 as stated: a session is playing only once a start-wave command has
\* moved it there, which also increments the wave number; so a session whose
\* wave number is still 0 is waiting.
C9_WaitingUntilStartWave ==
  \A id \in DOMAIN games : games[id].wave = 0 => games[id].state = "waiting"

\* C9 amended: a session leaves waiting when a player joins it (the wave
\* number unchanged), so a waiting session has an empty roster and no wave;
\* the wave number changes only in a playing session with no wave in
\* progress, by one, together with the in-progress flag, a fresh spawn
\* schedule and a zeroed spawn clock.
C9_JoinStartsPlaying ==
  [][\A id \in (DOMAIN games) \cap (DOMAIN games') :
       LET g == games[id]
           h == games'[id]
       IN /\ h.state = "waiting" => (DOMAIN h.players = {} /\ h.wave = 0)
          /\ (g.state = "waiting" /\ h.state # "waiting") =>
               /\ h.state = "playing"
               /\ DOMAIN h.players # DOMAIN g.players
               /\ h.wave = g.wave
               /\ h.enemies_to_spawn = g.enemies_to_spawn
          /\ h.wave # g.wave =>
               /\ g.state = "playing"
               /\ ~g.wave_in_progress
               /\ h.wave = g.wave + 1
               /\ h.wave_in_progress
               /\ \E r \in Rolls :
                    h.enemies_to_spawn
                      = generate_wave_enemies(h.wave, [i \in 1..BaseCount(h.wave) |-> r])
               /\ h.spawn_timer = 0
               /\ h.state = "playing"]_vars

\* a session that a join set playing and in which a wave was then started
C9_Witness ==
  \E id \in registry :
    /\ games[id].state = "playing"
    /\ games[id].wave = 1
    /\ games[id].wave_in_progress
    /\ DOMAIN games[id].players # {}

\* C10: a session that has ended stays ended: no join, command, wave start
\* or update moves it to another state, and an update changes nothing of it.
C10_EndedIsTerminal ==
  [][\A id \in DOMAIN games :
       games[id].state = "ended" =>
         /\ id \in DOMAIN games' => games'[id].state = "ended"
         /\ \A dt \in DeltaTimes : \A d \in Draws :
              update(games[id], dt, now + dt, d) = games[id]]_vars

\* the castle fell, the results were applied to the player's profile, the
\* pending join completed and the driver passed over the ended session again
C10_Witness ==
  \E id \in registry :
    /\ games[id].state = "ended"
    /\ games[id].castle_health <= 0
    /\ \E s \in DOMAIN games[id].players :
         profiles[games[id].players[s].profile].total_games_played = 1
    /\ \A t \in Threads : threads[t] = Idle
    /\ Elapsed(now) >= 2 * 48

\* C11: a playing session whose castle health is at or below zero after the
\* enemy stage of an update is ended when that update returns, and no step
\* leaves a session playing with castle health at or below zero.
C11_FallenCastleEnds ==
  [][\A id \in DOMAIN games :
       /\ \A dt \in DeltaTimes : \A d \in Draws :
            LET g == games[id]
                u == update(g, dt, now + dt, d)
            IN g.state = "playing" =>
                 /\ UpdateEnemies(g, dt, now + dt).castle_health <= 0 => u.state = "ended"
                 /\ u.castle_health <= 0 <=> u.state = "ended"
       /\ id \in DOMAIN games' =>
            (games'[id].state = "playing" => games'[id].castle_health > 0)
       /\ (id \in DOMAIN games' /\ games[id].state = "playing"
             /\ games'[id].castle_health <= 0) => games'[id].state = "ended"]_vars

\* the update in which the last arrival took the castle below zero: the
\* arriving enemy is gone and the session has ended
C11_Witness ==
  \E id \in registry :
    /\ games[id].state = "ended"
    /\ games[id].castle_health < 0
    /\ games[id].castle_health + CastleDamage(games[id].wave) > 0
    /\ Elapsed(now) = 48

\* C12: once the driver has finished its pass, every player in the roster of
\* an ended session has had the end-of-game rewards applied to the profile
\* exactly once (each profile plays one session here), and no profile has had
\* them applied twice.
C12_RewardsExactlyOnce ==
  /\ \A id \in DOMAIN games :
       (games[id].state = "ended" /\ threads[Driver] = Idle) =>
         \A s \in DOMAIN games[id].players :
           profiles[games[id].players[s].profile].total_games_played = 1
  /\ \A p \in Profiles : profiles[p].total_games_played <= 1

\* C13: no step raises the castle health of a playing session, whichever
\* handler or driver pass takes it; a join or a leave of any player leaves the
\* current health as it is (a join recomputes the maximum only).
C13_CastleHealthNeverRises ==
  [][\A id \in DOMAIN games :
       LET g == games[id] IN
       g.state = "playing" =>
         /\ id \in DOMAIN games' => games'[id].castle_health <= g.castle_health
         /\ \A s \in Sockets : \A p \in Profiles :
              /\ add_player(g, s, p, profiles[p]).castle_health = g.castle_health
              /\ remove_player(g, s).castle_health = g.castle_health]_vars

\* a player with the castle perk joined a session that was already playing:
\* the maximum rose by the perk's 50 and the current health stayed
C13_Witness ==
  \E id \in registry :
    /\ games[id].state = "playing"
    /\ games[id].max_castle_health = BaseCastleHealth + 50
    /\ games[id].castle_health = BaseCastleHealth

\* C14: in an update of a playing session, every enemy whose turn comes (it
\* is not stunned) with no waypoint left ahead of it takes 10 + floor(wave / 2)
\* from the castle health and is gone from the enemy list when the enemy loop
\* ends; the castle health at the end of the update is the health before it
\* less that amount for each such enemy, and nothing else changes it.
C14_ArrivalDamagesOnce ==
  \A id \in DOMAIN games : \A dt \in DeltaTimes : \A d \in Draws :
    LET g == games[id]
        spawned == SpawnStage(g, dt)
        arrived == {i \in 1..Len(spawned.enemies) :
                      /\ spawned.enemies[i].stunned_until <= now + dt
                      /\ spawned.enemies[i].path_index + 1 >= Len(Path)}
        e == EnemyStage(spawned, dt, now + dt)
        u == update(g, dt, now + dt, d)
    IN g.state = "playing" =>
         /\ e.castle_health
              = g.castle_health - Cardinality(arrived) * (10 + g.wave \div 2)
         /\ \A i \in arrived : \A j \in 1..Len(e.enemies) :
              e.enemies[j].id # spawned.enemies[i].id
         /\ \A i \in arrived : \A j \in 1..Len(u.enemies) :
              u.enemies[j].id # spawned.enemies[i].id
         /\ u.castle_health = e.castle_health

\* the last swarm of wave 7 arrived: 13 were taken from the 12 that were left
\* and the 15 grunts still on the path remain
C14_Witness ==
  \E id \in registry :
    /\ games[id].wave = 7
    /\ games[id].castle_health = 12 - 13
    /\ Len(games[id].enemies) = 15
    /\ \A j \in 1..Len(games[id].enemies) : games[id].enemies[j].type = "grunt"


\* C15: starting a wave while one is in progress changes nothing of the
\* session (wave number, every player's gold, spawn queue, spawn clock and
\* the in-progress flag), and the wave number rises by exactly one, only in a
\* step that finds no wave in progress and leaves one in progress.
C15_StartWaveInProgressNoOp ==
  [][\A id \in registry :
       LET g == games[id]
           g2 == games'[id]
       IN /\ g.wave_in_progress =>
               /\ \A r \in Rolls :
                    start_wave(g, [i \in 1..BaseCount(g.wave + 1) |-> r]) = g
               /\ now' = now => g2 = g
          /\ g2.wave \in {g.wave, g.wave + 1}
          /\ g2.wave = g.wave + 1 => ~g.wave_in_progress /\ g2.wave_in_progress]_vars

\* a wave after the first is running: its queue is not exhausted, the spawn
\* clock has advanced and a player holds gold that a second bonus would raise
C15_Witness ==
  \E id \in registry :
    /\ games[id].state = "playing"
    /\ games[id].wave_in_progress
    /\ games[id].wave >= 2
    /\ games[id].enemies_to_spawn # <<>>
    /\ games[id].spawn_timer > 0
    /\ \E s \in DOMAIN games[id].players : games[id].players[s].gold > 0


Scheduled(queue, W) ==
  LET regular == 5 + (3 * W) \div 2
      healers == W \div 2
      lead == IF W % 5 = 0 THEN 1 + healers ELSE 0
      tail == IF W % 7 = 0 THEN 20 ELSE 0
  IN /\ Len(queue) = lead + regular + tail
     /\ W % 5 = 0 =>
          /\ queue[1] = [type |-> "boss", delay |-> 0]
          /\ \A i \in 0..(healers - 1) :
               queue[2 + i] = [type |-> "healer", delay |-> 500 + i * 300]
     /\ \A i \in 0..(regular - 1) :
          /\ queue[lead + 1 + i].delay = i * 400
          /\ queue[lead + 1 + i].type \in
               {"grunt", "runner", "tank", "healer", "shield", "swarm", "ghost",
                "berserker"}
     /\ \A i \in 0..(tail - 1) :
          queue[lead + regular + 1 + i] =
            [type |-> "swarm", delay |-> regular * 400 + i * 150]

\* C20: for every wave W >= 1 the generated schedule has exactly
\* 5 + floor(1.5 * W) regular entries at delays i * 400, preceded in waves
\* that are multiples of 5 by one boss at delay 0 and floor(W / 2) healers at
\* delays 500 + i * 300, followed in waves that are multiples of 7 by 20
\* swarm entries at delays baseCount * 400 + i * 150, and no other entry;
\* a session whose wave has just been started holds such a schedule.
C20_WaveSchedule ==
  /\ \A W \in 1..MaxWave, r \in Rolls :
       Scheduled(generate_wave_enemies(W, [i \in 1..BaseCount(W) |-> r]), W)
  /\ \A id \in registry :
       (games[id].wave_in_progress /\ games[id].spawn_timer = 0) =>
          Scheduled(games[id].enemies_to_spawn, games[id].wave)

\* wave 35, a multiple of both 5 and 7, has just been started on a low roll:
\* boss, 17 healers, 57 regular entries (berserkers) and 20 swarm entries
C20_Witness ==
  \E id \in registry :
    /\ games[id].wave = 35
    /\ games[id].wave_in_progress
    /\ games[id].spawn_timer = 0
    /\ Len(games[id].enemies_to_spawn) = 95
    /\ games[id].enemies_to_spawn[19] = [type |-> "berserker", delay |-> 0]
    /\ games[id].enemies_to_spawn[95] = [type |-> "swarm", delay |-> 25650]


\* C17: a player is admitted to a session only while its roster has fewer
\* than 8 players, so that no roster ever holds more than 8 players.
C17_RosterAtMostEight ==
  \A id \in DOMAIN games : Cardinality(DOMAIN games[id].players) <= MaxPlayers


\* C18: after every roster change, by a join or by a leave, the maximum
\* castle health of a session is 1000 plus the sum of the castle-health
\* bonuses of the players in its roster, and the current health is reset to
\* that maximum only while the session is waiting.
C18_MaxHealthTracksRoster ==
  \A id \in registry :
    LET g == games[id]
        bonus_health == SumOver([s \in DOMAIN g.players |->
                                   g.players[s].stats.castleHealthBonus],
                                DOMAIN g.players)
    IN /\ g.max_castle_health = BaseCastleHealth + bonus_health
       /\ g.state = "waiting" => g.castle_health = g.max_castle_health


\* C19: after a player has left, the towers that player placed remain and
\* remain functional: in an update in which the fire interval of an
\* ownerless attacking tower has elapsed and an enemy it can hit is in range
\* (both taken without any perk, the least any owner's multipliers give),
\* the tower fires, which stamps it with the time of the update.
C19_OwnerlessTowerFires ==
  \A id \in registry : \A dt \in DeltaTimes :
    LET g == games[id]
        now_ms == now + dt
        e == UpdateEnemies(g, dt, now_ms)
        fired == TowerStage(e, now_ms, [crit |-> FALSE, skeleton |-> FALSE])
    IN g.state = "playing" =>
         \A i \in 1..Len(e.towers) :
           LET t == e.towers[i] IN
           ( /\ t.owner_id \notin DOMAIN e.players
             /\ t.type \notin {"goldmine", "shrine"}
             /\ now_ms - t.last_fired >= TOWER_TYPES[t.type].fireRate
             /\ \E k \in 1..Len(e.enemies) :
                  /\ ~ (e.enemies[k].phasing /\ t.type \notin {"wizard", "necromancer"})
                  /\ Dist2(At(t), e.enemies[k])
                       < (20 * TOWER_TYPES[t.type].range) * (20 * TOWER_TYPES[t.type].range) )
           => /\ fired.towers[i].last_fired = now_ms
              /\ Len(fired.projectiles) > Len(e.projectiles)


\* C21: every entry of the spawn queue is instantiated in the first update in
\* which the spawn clock has reached the entry's own delay, on boss waves
\* too: once an update has advanced the clock of a running wave, no entry
\* whose delay the clock has reached is still pending.
C21_SpawnedWhenDue ==
  \A id \in registry :
    LET g == games[id] IN
    (g.state = "playing" /\ g.wave_in_progress /\ g.spawn_timer > 0) =>
       \A i \in 1..Len(g.enemies_to_spawn) :
         g.enemies_to_spawn[i].delay > g.spawn_timer


\* C22: an enemy spawned during wave W has health = max health =
\* floor(baseHealth * (1 + (W - 1) * 0.15)) and reward =
\* floor(baseReward * (1 + W * 0.1)); max health and reward never change
\* afterwards.  (No wave ends while an enemy is alive here, so W is the
\* session's wave; health is kept in thousandths.)
C22_SpawnScaling ==
  \A id \in registry :
    LET g == games[id] IN
    \A i \in 1..Len(g.enemies) :
      LET e == g.enemies[i]
          base == ENEMY_TYPES[e.type]
      IN /\ e.max_health = 1000 * ((base.health * (100 + (g.wave - 1) * 15)) \div 100)
         /\ e.reward = (base.reward * (10 + g.wave)) \div 10
         /\ e.health <= e.max_health


\* C23: when the processing of one session fails during a driver iteration,
\* the driver still updates every other playing session in that iteration:
\* the step that finishes the driver's work on a session leaves every
\* registered playing session that comes after it updated with the
\* iteration's delta time.
C23_FailureIsIsolated ==
  [][(threads[Driver].op = "emit" /\ threads'[Driver] = Idle) =>
       LET f == threads[Driver] IN
       \A id \in f.todo \cap registry :
         games[id].state = "playing" =>
           games'[id] = update(games[id], f.delta_time, f.now_ms, f.draws)]_vars


\* C24: update does not fail on a gap in its data and the gap has no effect.
\* A projectile whose target is not among the live enemies is removed: the
\* projectile pass gives what it gives without that projectile.  A queued
\* spawn of an unknown enemy type is consumed without an enemy, and a tower
\* of an unknown type is passed over: the update gives the enemies, the
\* queue, the players and the state it gives without the gap, and it does not
\* end a session whose castle stands.
C24_GapsAreSkipped ==
  \A id \in registry : \A dt \in DeltaTimes :
    LET g == games[id]
        now_ms == now + dt
        quiet == [crit |-> FALSE, skeleton |-> FALSE]
        fired == TowerStage(UpdateEnemies(g, dt, now_ms), now_ms, quiet)
        Live(p) == \E k \in 1..Len(fired.enemies) : fired.enemies[k].id = p.target_id
        aimed == [fired EXCEPT !.projectiles = SelectSeq(@, Live)]
        flown == ProjectileStage(fired, quiet)
        u == update(g, dt, now_ms, quiet)
        queued == [g EXCEPT !.enemies_to_spawn = <<[type |-> "wraith", delay |-> 0]>> \o @]
        uq == update(queued, dt, now_ms, quiet)
        relic == [Tower(0, "ballista", 50, 180, 0, 1) EXCEPT !.last_fired = 0]
        built == [g EXCEPT !.towers = Append(@, relic)]
        ub == update(built, dt, now_ms, quiet)
    IN g.state = "playing" =>
         /\ flown = ProjectileStage(aimed, quiet)
         /\ \A i \in 1..Len(flown.projectiles) :
              \E k \in 1..Len(fired.enemies) :
                fired.enemies[k].id = flown.projectiles[i].target_id
         /\ u.castle_health > 0 => u.state = "playing"
         /\ uq.enemies = u.enemies /\ uq.enemies_to_spawn = u.enemies_to_spawn
         /\ uq.players = u.players /\ uq.state = u.state
         /\ uq.projectiles = u.projectiles
         /\ ub = [u EXCEPT !.towers = Append(@, relic)]

\* the arrow that was on its way to the second enemy when it died is gone one
\* pass later, with the enemy; the other enemies and the players' gold are as
\* the pass without that arrow leaves them
C24_Witness ==
  /\ now = BattleTime + 48
  /\ 1 \in registry
  /\ games[1].state = "playing"
  /\ \A k \in 1..Len(games[1].enemies) : games[1].enemies[k].id # 2
  /\ \A i \in 1..Len(games[1].projectiles) : games[1].projectiles[i].target_id # 2
  /\ Len(games[1].enemies) = 4
  /\ DOMAIN games[1].players = {1, 2}


\* C25: matchmaking gives a joiner the first registered session that is
\* waiting and has fewer than 8 players, and creates and registers a new
\* session only when there is none; the session it gives is never playing,
\* ended or full, so joiners arriving while a session waits with room are
\* placed into that session.
C25_Matchmaking ==
  [][\A t \in Threads :
       (threads[t].op = "idle" /\ threads'[t].op = "join") =>
          LET open == {g \in registry :
                         /\ games[g].state = "waiting"
                         /\ Cardinality(DOMAIN games[g].players) < MaxPlayers}
              got == threads'[t].game
          IN IF open # {}
               THEN /\ got \in open
                    /\ \A g \in open : got <= g
                    /\ registry' = registry
                    /\ games' = games
               ELSE /\ got \notin registry
                    /\ registry' = registry \cup {got}
                    /\ games'[got] = CastleGame(got)]_vars

\* two joiners at once: the first found no session and had one created, the
\* second was given that same waiting session
C25_Witness ==
  /\ \A t \in Threads : threads[t].op = "join" /\ threads[t].game = 1
  /\ threads[1].sid # threads[2].sid
  /\ registry = {1}
  /\ games[1].state = "waiting"


\* C26: a session that is ended and whose roster is empty does not stay in
\* the registry: the step in which the last player of a registered session
\* leaves takes the session out of the registry, so that no registered
\* session is ever ended with an empty roster.
C26_EndedEmptyRemoved ==
  [][/\ \A id \in registry :
          /\ games[id].state = "ended" => DOMAIN games[id].players # {}
          /\ ( /\ DOMAIN games[id].players # {}
               /\ id \in DOMAIN games' => DOMAIN games'[id].players = {} )
             => id \notin registry'
     /\ \A id \in registry' :
          games'[id].state = "ended" => DOMAIN games'[id].players # {}]_vars

\* the session ended, its players were rewarded, and when the last of them
\* had left it was gone from the registry
C26_Witness ==
  /\ registry = {}
  /\ \A s \in Sockets : sockets[s] = "closed"
  /\ \E p \in Profiles : profiles[p].total_games_played = 1
  /\ threads[Driver] = Idle


\* C27: an enemy whose health is at or below zero when the enemy pass of an
\* update runs, stunned or not, is absent from the session's enemy list once
\* that update's sweep has completed
C27_DeadEnemiesSwept ==
  [][now' # now =>
       \A id \in registry :
         games[id].state = "playing" =>
           \A i \in 1..Len(games[id].enemies) :
             games[id].enemies[i].health <= 0 =>
               \A j \in 1..Len(games'[id].enemies) :
                 games'[id].enemies[j].id # games[id].enemies[i].id]_vars


\* the stages of one update in the order C28 states them
StagesAsStated(g, delta_time, now_ms, draws) ==
  LET moved == EnemyStage(SpawnStage(g, delta_time), delta_time, now_ms)
      healed == HealerStage(moved, delta_time)
      fired == TowerStage(healed, now_ms, draws)
      flown == ProjectileStage(fired, draws)
      fought == TroopStage(flown, delta_time)
  IN GameOverCheck(WaveCompleteCheck(fought))

\* the stages of one update with the healer aura after the projectile pass
StagesAmended(g, delta_time, now_ms, draws) ==
  LET moved == EnemyStage(SpawnStage(g, delta_time), delta_time, now_ms)
      fired == TowerStage(moved, now_ms, draws)
      flown == ProjectileStage(fired, draws)
      healed == HealerStage(flown, delta_time)
      fought == TroopStage(healed, delta_time)
  IN GameOverCheck(WaveCompleteCheck(fought))

\* C28 (as stated): within one update the stages run in the order spawning,
\* enemy pass and sweep, healer aura, tower firing, projectile pass, troop
\* pass, wave-completion check, terminal check
C28_AuraBeforeTowers ==
  [][\A dt \in DeltaTimes :
       now' = now + dt =>
         \A id \in registry :
           games[id].state = "playing" =>
             \E d \in Draws : games'[id] = StagesAsStated(games[id], dt, now + dt, d)]_vars

\* C28 (amended): within one update the stages run in the order spawning,
\* enemy pass and sweep, tower firing, projectile pass, healer aura, troop
\* pass, wave-completion check, terminal check: the aura is applied after the
\* projectile impacts of the same update
C28_StageOrder ==
  [][\A dt \in DeltaTimes :
       now' = now + dt =>
         \A id \in registry :
           games[id].state = "playing" =>
             \E d \in Draws : games'[id] = StagesAmended(games[id], dt, now + dt, d)]_vars

\* an arrow has hit the boss of wave 5 at full health and both healers of the
\* wave have healed it in the same update: 12 lost, twice 1.5 restored
C28_Witness ==
  /\ now > HealTime
  /\ 1 \in registry
  /\ \E i \in 1..Len(games[1].enemies) :
       /\ games[1].enemies[i].type = "boss"
       /\ games[1].enemies[i].health = games[1].enemies[i].max_health - 9000
       /\ Cardinality({h \in 1..Len(games[1].enemies) :
                         /\ games[1].enemies[h].heals
                         /\ Dist2(games[1].enemies[h], games[1].enemies[i]) < 1600 * 1600}) = 2


\* the session as tower i of the tower pass finds it: the towers before it
\* in the list have had their turn
RECURSIVE BeforeTower(_, _, _, _)
BeforeTower(g, i, now_ms, draws) ==
  IF i = 1 THEN g
  ELSE TowerStep(BeforeTower(g, i - 1, now_ms, draws), i - 1, now_ms, draws)

\* C29: an attacking tower whose fire interval has elapsed fires at the enemy
\* nearest to it among the enemies of the list strictly within its effective
\* range that it may hit (a phasing enemy only by a wizard or necromancer),
\* the earliest in the list among equally near ones; with no such enemy it
\* does not fire and its last-fired time is unchanged
C29_NearestValidTarget ==
  \A id \in registry :
    games[id].state = "playing" =>
      \A dt \in DeltaTimes, d \in Draws :
        LET m == UpdateEnemies(games[id], dt, now + dt) IN
        \A i \in 1..Len(m.towers) :
          LET before == BeforeTower(m, i, now + dt, d)
              after == TowerStep(before, i, now + dt, d)
              tw == before.towers[i]
          IN ( /\ tw.owner_id \in DOMAIN before.players
               /\ tw.type \in DOMAIN TOWER_TYPES
               /\ tw.type \notin {"goldmine", "shrine"} ) =>
             LET stats == before.players[tw.owner_id].stats
                 reach == (TOWER_TYPES[tw.type].range * (100 + 5 * stats.towerRange)) \div 5
                 valid == {k \in 1..Len(before.enemies) :
                             /\ before.enemies[k].phasing => tw.type \in {"wizard", "necromancer"}
                             /\ Dist2(At(tw), before.enemies[k]) < reach * reach}
                 due == (now + dt - tw.last_fired) * (100 + 3 * stats.towerSpeed)
                          >= TOWER_TYPES[tw.type].fireRate * 100
             IN IF due /\ valid # {}
                  THEN \E k \in valid :
                         /\ \A j \in valid \ {k} :
                              \/ Dist2(At(tw), before.enemies[k]) < Dist2(At(tw), before.enemies[j])
                              \/ /\ Dist2(At(tw), before.enemies[k]) = Dist2(At(tw), before.enemies[j])
                                 /\ k < j
                         /\ after.towers[i].last_fired = now + dt
                         /\ Len(after.projectiles) > Len(before.projectiles)
                         /\ after.projectiles[Len(before.projectiles) + 1].target_id
                              = before.enemies[k].id
                  ELSE /\ after.towers[i].last_fired = tw.last_fired
                       /\ after.projectiles = before.projectiles

\* the archer has fired in the update just run, at a grunt, although the ghost
\* of the wave is nearer to it and within its range
C29_Witness ==
  /\ 1 \in registry
  /\ \E i \in 1..Len(games[1].towers), k, j \in 1..Len(games[1].enemies),
        p \in 1..Len(games[1].projectiles) :
       /\ games[1].towers[i].type = "archer"
       /\ games[1].towers[i].last_fired = now
       /\ games[1].enemies[k].phasing
       /\ ~games[1].enemies[j].phasing
       /\ games[1].projectiles[p].type = "archer"
       /\ games[1].projectiles[p].target_id = games[1].enemies[j].id
       /\ Dist2(At(games[1].towers[i]), games[1].enemies[k])
            < Dist2(At(games[1].towers[i]), games[1].enemies[j])
       /\ Dist2(At(games[1].towers[i]), games[1].enemies[j])
            < (20 * TOWER_TYPES["archer"].range) * (20 * TOWER_TYPES["archer"].range)


\* C30: the projectiles of one wizard volley, the primary one and those of
\* the chain jumps, are aimed at pairwise distinct enemies
C30_ChainTargetsDistinct ==
  \A id \in registry :
    games[id].state = "playing" =>
      \A dt \in DeltaTimes, d \in Draws :
        LET m == UpdateEnemies(games[id], dt, now + dt) IN
        \A i \in 1..Len(m.towers) :
          m.towers[i].type = "wizard" =>
            LET before == BeforeTower(m, i, now + dt, d)
                after == TowerStep(before, i, now + dt, d)
                volley == (Len(before.projectiles) + 1)..Len(after.projectiles)
            IN \A p, q \in volley :
                 p # q => after.projectiles[p].target_id # after.projectiles[q].target_id


\* C31: the health of every enemy in the enemy list of every registered
\* session is at most the enemy's max health
C31_HealthAtMostMax ==
  \A id \in registry :
    \A i \in 1..Len(games[id].enemies) :
      games[id].enemies[i].health <= games[id].enemies[i].max_health

\* an update has run on the wave-5 session and left the boss at full health
\* with a healer within 80 pixels of it: the aura was applied and capped
C31_Witness ==
  /\ now > HealTime
  /\ 1 \in registry
  /\ \E i, h \in 1..Len(games[1].enemies) :
       /\ games[1].enemies[i].type = "boss"
       /\ games[1].enemies[i].health = games[1].enemies[i].max_health
       /\ games[1].enemies[h].heals
       /\ Dist2(games[1].enemies[h], games[1].enemies[i]) < 1600 * 1600


\* C32: an update of a playing session leaves the wave-in-progress flag set
\* exactly when it was set and the enemy list or the spawn queue is non-empty
\* at the end of the update; a playing session whose flag is clear accepts
\* start-wave, and every change of the wave number is a start of wave
\* number + 1 from a clear flag
C32_WaveCompletion ==
  [][/\ \A dt \in DeltaTimes :
          now' = now + dt =>
            \A id \in registry :
              games[id].state = "playing" =>
                games'[id].wave_in_progress
                  = ( /\ games[id].wave_in_progress
                      /\ \/ Len(games'[id].enemies) # 0
                         \/ Len(games'[id].enemies_to_spawn) # 0 )
     /\ \A id \in registry :
          /\ ( /\ games[id].state = "playing"
               /\ ~games[id].wave_in_progress
               /\ games[id].wave < MaxWave ) =>
               LET started == start_wave(games[id],
                                         [i \in 1..BaseCount(games[id].wave + 1) |-> 900])
               IN started.wave = games[id].wave + 1 /\ started.wave_in_progress
          /\ ( /\ id \in DOMAIN games'
               /\ games'[id].wave # games[id].wave ) =>
               /\ ~games[id].wave_in_progress
               /\ games[id].state = "playing"
               /\ games'[id].wave = games[id].wave + 1
               /\ games'[id].wave_in_progress]_vars

\* the last grunt of wave 1 has died, an update has cleared the flag and a
\* player has started wave 2
C32_Witness ==
  /\ 1 \in registry
  /\ now > BattleTime
  /\ games[1].wave = 2
  /\ games[1].wave_in_progress
  /\ games[1].players[1].enemies_killed + games[1].players[2].enemies_killed >= 6


\* the kill counters of a session's players, added up
KillsOf(g) ==
  SumOver([s \in DOMAIN g.players |-> g.players[s].enemies_killed], DOMAIN g.players)

\* C33: an enemy yields a kill credit at most once: the kill credits an
\* update grants are at most as many as the enemies that update has killed,
\* those of the list whose health was positive before it and is not after it
C33_OneCreditPerEnemy ==
  [][\A dt \in DeltaTimes :
       now' = now + dt =>
         \A id \in registry :
           games[id].state = "playing" =>
             KillsOf(games'[id]) - KillsOf(games[id])
               <= Cardinality({j \in 1..Len(games'[id].enemies) :
                                 /\ games'[id].enemies[j].health <= 0
                                 /\ \A i \in 1..Len(games[id].enemies) :
                                      games[id].enemies[i].id = games'[id].enemies[j].id
                                        => games[id].enemies[i].health > 0})]_vars


\* ------------------------------------------------ builders between waves
\* the handlers of the players of a session between waves, the command
\* handlers of place-tower thread by thread
NextRace ==
  \/ \E s \in Sockets : handle_cd_start_wave(s, 900)
  \/ \E t \in Threads, s \in Sockets, p \in PlotIds : PlaceCheck(t, s, IntKey(p), "cannon")
  \/ \E t \in Threads : PlaceCommit(t)
  \/ \E s \in Sockets, p \in PlotIds : handle_cd_sell_tower(s, IntKey(p))

SpecRace == InitWave /\ [][NextRace]_vars

\* C34: the gold balance of every player of every registered session is
\* non-negative
C34_GoldNonNegative ==
  \A id \in registry :
    \A s \in DOMAIN games[id].players : games[id].players[s].gold >= 0


\* ------------------------------------------------- start-wave, step by step
\* handle_cd_start_wave on its own thread, up to `self.wave_in_progress =
\* True` of start_wave
StartWaveBegin(t, sid, roll) ==
  /\ threads[t] = Idle
  /\ sockets[sid] = "open"
  /\ LET game_id == cd_socket_to_game[sid] IN
     IF game_id = None \/ game_id \notin registry
       THEN UNCHANGED <<games, threads>>
     ELSE IF games[game_id].state # "playing" \/ games[game_id].wave_in_progress
       THEN UNCHANGED <<games, threads>>
     ELSE /\ games[game_id].wave < MaxWave
          /\ games' = [games EXCEPT ![game_id].wave = @ + 1,
                                    ![game_id].wave_in_progress = TRUE]
          /\ threads' = [threads EXCEPT ![t] =
               [op |-> "wave", sid |-> sid, game |-> game_id,
                rolls |-> [i \in 1..BaseCount(games[game_id].wave + 1) |-> roll]]]
  /\ UNCHANGED <<registry, next_game, cd_socket_to_game, socket_to_player, sockets,
                 profiles, now, next_id>>

\* start_wave from the wave bonus on: the gold, the spawn queue of the wave
\* the session is in by now, the spawn clock
StartWaveEnd(t) ==
  /\ threads[t].op = "wave"
  /\ LET f == threads[t]
         g == games[f.game]
         thr == [threads EXCEPT ![t] = Idle]
         paid == [g EXCEPT
                    !.players =
                      [s \in DOMAIN g.players |->
                         [g.players[s] EXCEPT
                            !.gold = @ + WaveBonus(g.wave, g.players[s].stats.waveBonus)
                                       + Interest(g.players[s].gold,
                                                  g.players[s].stats.goldInterest)]],
                    !.enemies_to_spawn =
                      generate_wave_enemies(g.wave, [i \in 1..BaseCount(g.wave) |-> f.rolls[1]]),
                    !.spawn_timer = 0]
     IN /\ threads' = thr
        /\ games' = Reachable([games EXCEPT ![f.game] = paid], registry, thr)
  /\ UNCHANGED <<registry, next_game, cd_socket_to_game, socket_to_player, sockets,
                 profiles, now, next_id>>

\* the start-wave handlers of the two players and the driver
NextSurge ==
  \/ \E t \in Threads, s \in Sockets, r \in Rolls : StartWaveBegin(t, s, r)
  \/ \E t \in Threads : StartWaveEnd(t)
  \/ \E dt \in DeltaTimes, d \in Draws : castle_defenders_tick(dt, d)

SpecSurge == InitWave /\ [][NextSurge]_vars

\* C35: in every registered session the wave-in-progress flag is set whenever
\* the enemy list or the spawn queue is non-empty
C35_ListsOnlyDuringWave ==
  \A id \in registry :
    (Len(games[id].enemies) # 0 \/ Len(games[id].enemies_to_spawn) # 0)
      => games[id].wave_in_progress


\* --------------------------------------------------- passes of uneven length
\* the time between two passes of the driver is what the sleep of 50 ms and
\* the work of the pass before took: 48 ms and, under load, 80 ms
MarchDeltas == {48, 80}

\* the session of one new player who builds nothing, MarchTicks passes after
\* joining: the first grunt of wave 1 is 25 pixels short of the first corner
MarchGame ==
  Played(StartOnJoin(add_player(CastleGame(1), 1, 1, StoredProfile(1))),
         BattleTime - 48 * MarchTicks, MarchTicks)

InitMarch ==
  /\ games = <<MarchGame>>
  /\ registry = {1}
  /\ next_game = 2
  /\ cd_socket_to_game = [s \in Sockets |-> IF s = 1 THEN 1 ELSE None]
  /\ socket_to_player = [s \in Sockets |-> IF s = 1 THEN 1 ELSE None]
  /\ sockets = [s \in Sockets |-> "open"]
  /\ profiles = [p \in Profiles |-> StoredProfile(p)]
  /\ threads = [t \in AllThreads |-> Idle]
  /\ now = BattleTime
  /\ next_id = 1

NextMarch ==
  \/ \E s \in Sockets, r \in Rolls : handle_cd_start_wave(s, r)
  \/ \E dt \in MarchDeltas, d \in Draws : castle_defenders_tick(dt, d)

SpecMarch == InitMarch /\ [][NextMarch]_vars

\* C36: every started wave finishes whatever the lengths of the passes.  An
\* enemy that no stun, slow or burn holds and that two updates of one delta
\* return to the state it is in is never removed by updates of that delta, so
\* its wave never finishes: no enemy of a wave in progress is in such a state
C36_NoEnemyStalls ==
  \A id \in registry :
    (games[id].state = "playing" /\ games[id].wave_in_progress) =>
      \A dt \in MarchDeltas :
        \A i \in 1..Len(games[id].enemies) :
          LET e == games[id].enemies[i]
              once == EnemyStep(e, dt, now + dt)
              twice == EnemyStep(once.enemy, dt, now + 2 * dt)
          IN ( /\ e.stunned_until <= now
               /\ e.slowed_until <= now
               /\ ~e.burning
               /\ e.health > 0 ) =>
             \/ once.remove
             \/ twice.remove
             \/ twice.enemy # e

\* C37: an update moves every enemy that is not stunned and short of the last
\* waypoint one waypoint on or strictly closer to its next waypoint; its path
\* index never decreases and never exceeds the last waypoint index
C37_EnemiesAdvance ==
  [][\A dt \in MarchDeltas :
       now' = now + dt =>
         \A id \in registry :
           games[id].state = "playing" =>
             \A i \in 1..Len(games[id].enemies), j \in 1..Len(games'[id].enemies) :
               LET e == games[id].enemies[i]
                   m == games'[id].enemies[j]
               IN ( /\ m.id = e.id
                    /\ ~Stunned(e, now + dt)
                    /\ e.path_index + 1 < PathLen ) =>
                  /\ m.path_index <= PathLen - 1
                  /\ \/ m.path_index = e.path_index + 1
                     \/ /\ m.path_index = e.path_index
                        /\ Dist2(m, Waypoint(e.path_index + 1))
                             < Dist2(e, Waypoint(e.path_index + 1))]_vars

\* ------------------------------------------------------ joining once more
\* The first connection joined and its session is playing; the join of the
\* second connection has just had a session of its own created by
\* find_or_create_game and has not yet entered it.  Connections log in, join
\* (again), start waves and disconnect.
InitRejoin ==
  /\ games = << StartOnJoin(add_player(CastleGame(1), 1, 1, StoredProfile(1))),
                CastleGame(2) >>
  /\ registry = {1, 2}
  /\ next_game = 3
  /\ cd_socket_to_game = [s \in Sockets |-> IF s = 1 THEN 1 ELSE None]
  /\ socket_to_player = [s \in Sockets |-> IF s <= 2 THEN s ELSE None]
  /\ sockets = [s \in Sockets |-> "open"]
  /\ profiles = [p \in Profiles |-> StoredProfile(p)]
  /\ threads = [t \in AllThreads |->
                  IF t = 2 THEN [op |-> "join", sid |-> 2, game |-> 2, profile |-> 2]
                  ELSE Idle]
  /\ now = StartTime
  /\ next_id = 1

NextRejoin ==
  \/ \E s \in Sockets : \E p \in LoginInputs(s) : handle_cd_login(s, p)
  \/ \E t \in Threads, s \in Sockets : JoinFind(t, s)
  \/ \E t \in Threads : JoinEnter(t)
  \/ \E s \in Sockets : handle_cd_start_wave(s, 900)
  \/ \E s \in Sockets : handle_cd_disconnect(s)

SpecRejoin == InitRejoin /\ [][NextRejoin]_vars

\* C38: a connection is in the roster of at most one registered session, and
\* the socket-to-session map sends every connection of a roster to the
\* session of that roster
C38_OneRosterPerConnection ==
  \A s \in Sockets :
    /\ Cardinality({id \in registry : s \in DOMAIN games[id].players}) <= 1
    /\ \A id \in registry :
         s \in DOMAIN games[id].players => cd_socket_to_game[s] = id

\* ------------------------------------------------- a healer among the grunts
\* Two builders with an archer tower each, some waves later: wave MendWave
\* was started with a healer as its sixth regular enemy (a draw below 0.1) and
\* grunts otherwise, and MendTicks updates have run since; the replay starts
\* early enough to reach HealTime.  The castle outlasts the earlier waves even
\* when every enemy of them arrives.
MendGame ==
  LET levels == Levels([p \in Profiles |-> StoredProfile(p)])
      joined == add_player(StartOnJoin(add_player(CastleGame(1), 1, 1, StoredProfile(1))),
                           2, 2, StoredProfile(2))
      first == place_tower(joined, levels, 1, 0, "archer", 1).game
      second == place_tower(first, levels, 2, 1, "archer", 2).game
      rolls == [i \in 1..BaseCount(MendWave) |-> IF i = 6 THEN 50 ELSE 900]
  IN Played(start_wave([second EXCEPT !.wave = MendWave - 1], rolls),
            HealTime - 48 * MendTicks, MendTicks)

InitMend ==
  /\ games = <<MendGame>>
  /\ now = HealTime
  /\ registry = {1}
  /\ next_game = 2
  /\ cd_socket_to_game = [s \in Sockets |-> IF s <= 2 THEN 1 ELSE None]
  /\ socket_to_player = [s \in Sockets |-> IF s <= 2 THEN s ELSE None]
  /\ sockets = [s \in Sockets |-> "open"]
  /\ profiles = [p \in Profiles |-> StoredProfile(p)]
  /\ threads = [t \in AllThreads |-> Idle]
  /\ next_id = 3

SpecMend == InitMend /\ [][NextBattle]_vars

\* C39: an enemy for which a kill has been credited stays dead.  When the
\* projectile pass of an update has brought enemies to health 0 or below and
\* has credited a kill for each of them, none of them is in the list with
\* positive health when that update ends; and an enemy that is in the list
\* with health 0 or below is not given positive health by the next update and
\* does not damage the castle in it
C39_KilledStaysDead ==
  [][\A dt \in DeltaTimes :
       now' = now + dt =>
         \A id \in registry :
           games[id].state = "playing" =>
             /\ \A i \in 1..Len(games[id].enemies) :
                  games[id].enemies[i].health <= 0 =>
                    /\ ~EnemyStep(games[id].enemies[i], dt, now + dt).reached
                    /\ \A j \in 1..Len(games'[id].enemies) :
                         games'[id].enemies[j].id = games[id].enemies[i].id
                           => games'[id].enemies[j].health <= 0
             /\ \A d \in Draws :
                  LET moved == UpdateEnemies(games[id], dt, now + dt)
                      fired == TowerStage(moved, now + dt, d)
                      flown == ProjectileStage(fired, d)
                      killed == {i \in 1..Len(flown.enemies) :
                                   /\ fired.enemies[i].health > 0
                                   /\ flown.enemies[i].health <= 0}
                  IN ( /\ games'[id] = UpdateDefence(moved, dt, now + dt, d)
                       /\ KillsOf(flown) - KillsOf(fired) = Cardinality(killed) ) =>
                       \A i \in killed : \A j \in 1..Len(games'[id].enemies) :
                         games'[id].enemies[j].id = flown.enemies[i].id
                           => games'[id].enemies[j].health <= 0]_vars

====
